---- MODULE Spec2Model ----
(***************************************************************************)
(* Context-free (isolation) validation of blocks and transactions:         *)
(*   consensus/src/pipeline/body_processor/body_validation_in_isolation.rs *)
(*   consensus/src/processes/transaction_validator/                        *)
(*                                          tx_validation_in_isolation.rs  *)
(*                                                                         *)
(* A block is a header and an ordered list of transactions.  The body      *)
(* processor runs eight checks in a fixed order; each check is one action  *)
(* of the model, and `pc` is the position inside                           *)
(* validate_body_in_isolation.  Every check is also an operator of the     *)
(* block, so that the whole function is available as the operator          *)
(* validate_body_in_isolation(b) to its callers.                           *)
(*                                                                         *)
(* The script builder and the exported opcode table:                       *)
(*   consensus/client/src/script.rs                                        *)
(*                                                                         *)
(* Specifications: Spec (a block through validate_body_in_isolation),      *)
(* SpecPipeline (blocks submitted to the pipeline around it), SpecTx (a    *)
(* transaction through validate_tx_in_isolation), SpecScript (calls on a   *)
(* ScriptBuilder) and SpecHandles (the handles of builders, borrow by      *)
(* borrow).                                                                *)
(***************************************************************************)
EXTENDS Integers, Sequences, FiniteSets, TLC

VARIABLES
    block,       \* the block handed to validate_body_in_isolation
    pc,          \* the check validate_body_in_isolation runs next
    executed,    \* the checks run so far, in the order they ran
    mass,        \* the local `mass` of validate_body_in_isolation
    result,      \* what validate_body_in_isolation returned
    statuses,    \* block pipeline: header -> status of the block
    submitted,   \* block pipeline: the block of the last submission
    outcome,     \* block pipeline: the result of the last submission
    history,     \* block pipeline: the earlier submissions, <<block, error name>>
    validated_tx, \* the transaction handed to validate_tx_in_isolation
    tx_pc,       \* the check validate_tx_in_isolation runs next
    tx_executed, \* the checks it ran so far, in the order they ran
    tx_result,   \* what validate_tx_in_isolation returned
    script_builder, \* ScriptBuilder: the buffer of the native builder in the RefCell
    handles,     \* ScriptBuilder: the handles that share it (the Rc's count)
    calls,       \* ScriptBuilder: the calls made so far, [op, arg, ok]
    returned,    \* ScriptBuilder: what the last call returned
    cells,       \* handles of builders: the RefCells allocated, each a buffer
    owners,      \* handles of builders: per handle, the cell its Rc points to
    borrow_flag, \* handles of builders: per cell, the borrows of the RefCell
    in_call      \* handles of builders: the call under way and its position

\* the state of the body processor, of the block pipeline, of the transaction
\* validator, of the script builder
body_vars == <<block, pc, executed, mass, result>>
pipeline_vars == <<statuses, submitted, outcome, history>>
tx_vars == <<validated_tx, tx_pc, tx_executed, tx_result>>
builder_vars == <<script_builder, handles, calls, returned>>
handle_vars == <<cells, owners, borrow_flag, in_call>>

vars == <<body_vars, pipeline_vars, tx_vars, builder_vars, handle_vars>>

-----------------------------------------------------------------------------
(* Bounds of the model *)

\* blocks hold at most MaxTxs transactions
MaxTxs == 3

\* u64 quantities (masses, output values) are modelled U64_BITS wide
U64_BITS == 4

\* the pipeline is followed for at most MaxSubmissions submissions
MaxSubmissions == 3

-----------------------------------------------------------------------------
(* Integers *)

U64_MAX == 2 ^ U64_BITS - 1

\* u64::wrapping_add
WrappingAdd(a, b) == (a + b) % (2 ^ U64_BITS)

\* u64::saturating_add
SaturatingAdd(a, b) == IF a + b > U64_MAX THEN U64_MAX ELSE a + b

\* an addition too narrow for the sum of two values of MAX_SOMPI
CheckedAddNarrow(a, b) == IF a + b > U64_MAX \div 2 THEN -1 ELSE a + b

\* u64::checked_add; None is -1
CheckedAdd(a, b) == IF a + b > U64_MAX THEN -1 ELSE a + b

Min(S) == CHOOSE x \in S : \A y \in S : x <= y

-----------------------------------------------------------------------------
(* Configuration (per network, immutable at startup), at model scale *)

max_tx_inputs == 3
max_tx_outputs == 4
max_signature_script_len == 2
max_script_public_key_len == 2
ghostdag_k == 0
coinbase_payload_script_public_key_max_len == 1
max_block_mass == 10
storage_mass_activation_daa_score == 1
MAX_SOMPI == 7
TX_VERSION == 0

SUBNETWORK_ID_COINBASE == "coinbase"
SUBNETWORK_ID_NATIVE == "native"

-----------------------------------------------------------------------------
(* Results *)

Ok(v) == [ok |-> TRUE, err |-> "", args |-> <<v>>]
OkUnit == [ok |-> TRUE, err |-> "", args |-> <<>>]
Err(e, a) == [ok |-> FALSE, err |-> e, args |-> a]
Pending == [ok |-> FALSE, err |-> "pending", args |-> <<>>]

\* r is the error e with the arguments a
IsErr(r, e, a) == ~r.ok /\ r.err = e /\ r.args = a

\* two results are the same value
SameResult(r, s) == r.ok = s.ok /\ r.err = s.err /\ r.args = s.args

-----------------------------------------------------------------------------
(* Data model: kaspa_consensus_core::tx *)

TransactionOutpoint(id, index) == [transaction_id |-> id, index |-> index]

TransactionInput(outpoint, signature_script, sig_ops) ==
    [previous_outpoint |-> outpoint, signature_script |-> signature_script,
     sequence |-> U64_MAX, sig_op_count |-> sig_ops]

TransactionOutput(value, script_bytes) ==
    [value |-> value, script_public_key |-> [version |-> 0, script |-> script_bytes]]

\* Transaction::new(version, inputs, outputs, lock_time, subnetwork_id, gas,
\* payload), and the committed mass field
Transaction(version, inputs, outputs, subnetwork_id, gas, payload, m) ==
    [version |-> version, inputs |-> inputs, outputs |-> outputs, lock_time |-> 0,
     subnetwork_id |-> subnetwork_id, gas |-> gas, payload |-> payload, mass |-> m]

is_coinbase(tx) == tx.subnetwork_id = SUBNETWORK_ID_COINBASE

\* Transaction::id: the hash of the transaction's serialization without the
\* signature scripts, the signature-operation counts and the mass commitment.
\* The hash is collision free: it is modelled as the serialized content itself.
TxId(tx) ==
    [version |-> tx.version,
     inputs |-> [i \in 1..Len(tx.inputs) |->
                    [previous_outpoint |-> tx.inputs[i].previous_outpoint,
                     sequence |-> tx.inputs[i].sequence]],
     outputs |-> tx.outputs, lock_time |-> tx.lock_time,
     subnetwork_id |-> tx.subnetwork_id, gas |-> tx.gas, payload |-> tx.payload]

\* hashing::tx::hash(tx, include_mass_field): the whole transaction; the mass
\* commitment is part of it only when the flag is set
TxHash(tx, include_mass_field) ==
    IF include_mass_field THEN tx ELSE [tx EXCEPT !.mass = 0]

\* calc_hash_merkle_root_with_options: the root commits to the ordered list of
\* leaf hashes; collision free, it is modelled as that list
calc_hash_merkle_root_with_options(txs, include_mass_field) ==
    [i \in 1..Len(txs) |-> TxHash(txs[i], include_mass_field)]

\* MassCalculator::calc_tx_compute_mass: a function of the transaction's size,
\* its script public keys and its signature operations, never of the mass field
RECURSIVE SigOps(_)
SigOps(inputs) ==
    IF inputs = <<>> THEN 0 ELSE Head(inputs).sig_op_count + SigOps(Tail(inputs))

calc_tx_compute_mass(tx) ==
    1 + Len(tx.inputs) + Len(tx.outputs) + 3 * SigOps(tx.inputs)

-----------------------------------------------------------------------------
(* TransactionValidator: tx_validation_in_isolation.rs *)

\* first success, else the first error: the `?` operator
AndThen(r, next) == IF r.ok THEN next ELSE r

\* Iterator::position over the sequence of the predicate's values: 0 when there
\* is none, else the 1-based position of the first TRUE
Position(hits) ==
    IF \E i \in 1..Len(hits) : hits[i] THEN Min({i \in 1..Len(hits) : hits[i]}) ELSE 0

\* the limit taken as exclusive
check_transaction_inputs_count_exclusive(tx) ==
    IF ~is_coinbase(tx) /\ tx.inputs = <<>> THEN Err("NoTxInputs", <<>>)
    ELSE IF Len(tx.inputs) >= max_tx_inputs
         THEN Err("TooManyInputs", <<Len(tx.inputs), max_tx_inputs>>)
    ELSE OkUnit

check_transaction_inputs_count(tx) ==
    IF ~is_coinbase(tx) /\ tx.inputs = <<>> THEN Err("NoTxInputs", <<>>)
    ELSE IF Len(tx.inputs) > max_tx_inputs
         THEN Err("TooManyInputs", <<Len(tx.inputs), max_tx_inputs>>)
    ELSE OkUnit

\* a signature script of exactly the limit refused
check_transaction_signature_scripts_exclusive(tx) ==
    LET TooBig(input) == Len(input.signature_script) >= max_signature_script_len
        p == Position([i \in 1..Len(tx.inputs) |-> TooBig(tx.inputs[i])])
    IN  IF p # 0 THEN Err("TooBigSignatureScript", <<p - 1, max_signature_script_len>>)
        ELSE OkUnit

check_transaction_signature_scripts(tx) ==
    LET TooBig(input) == Len(input.signature_script) > max_signature_script_len
        p == Position([i \in 1..Len(tx.inputs) |-> TooBig(tx.inputs[i])])
    IN  IF p # 0 THEN Err("TooBigSignatureScript", <<p - 1, max_signature_script_len>>)
        ELSE OkUnit

check_transaction_inputs_in_isolation(tx) ==
    AndThen(check_transaction_inputs_count(tx), check_transaction_signature_scripts(tx))

check_transaction_outputs_count(tx) ==
    IF Len(tx.outputs) > max_tx_outputs
    THEN Err("TooManyOutputs", <<Len(tx.inputs), max_tx_inputs>>)
    ELSE OkUnit

check_transaction_script_public_keys(tx) ==
    LET TooBig(output) == Len(output.script_public_key.script) > max_script_public_key_len
        p == Position([i \in 1..Len(tx.outputs) |-> TooBig(tx.outputs[i])])
    IN  IF p # 0 THEN Err("TooBigScriptPublicKey", <<p - 1, max_script_public_key_len>>)
        ELSE OkUnit

check_transaction_outputs_in_isolation(tx) ==
    AndThen(check_transaction_outputs_count(tx), check_transaction_script_public_keys(tx))

\* a coinbase with exactly ghostdag_k + 2 outputs refused
check_coinbase_in_isolation_exclusive(tx) ==
    LET outputs_limit == ghostdag_k + 2
        TooLong(output) ==
            Len(output.script_public_key.script) > coinbase_payload_script_public_key_max_len
        p == Position([i \in 1..Len(tx.outputs) |-> TooLong(tx.outputs[i])])
    IN  IF ~is_coinbase(tx) THEN OkUnit
        ELSE IF tx.inputs # <<>> THEN Err("CoinbaseHasInputs", <<Len(tx.inputs)>>)
        ELSE IF Len(tx.outputs) >= outputs_limit
             THEN Err("CoinbaseTooManyOutputs", <<Len(tx.outputs), outputs_limit>>)
        ELSE IF p # 0 THEN Err("CoinbaseScriptPublicKeyTooLong", <<p - 1>>)
        ELSE OkUnit

check_coinbase_in_isolation(tx) ==
    LET outputs_limit == ghostdag_k + 2
        TooLong(output) ==
            Len(output.script_public_key.script) > coinbase_payload_script_public_key_max_len
        p == Position([i \in 1..Len(tx.outputs) |-> TooLong(tx.outputs[i])])
    IN  IF ~is_coinbase(tx) THEN OkUnit
        ELSE IF tx.inputs # <<>> THEN Err("CoinbaseHasInputs", <<Len(tx.inputs)>>)
        ELSE IF Len(tx.outputs) > outputs_limit
             THEN Err("CoinbaseTooManyOutputs", <<Len(tx.outputs), outputs_limit>>)
        ELSE IF p # 0 THEN Err("CoinbaseScriptPublicKeyTooLong", <<p - 1>>)
        ELSE OkUnit

\* the loop with the running total tested before the value of the output
RECURSIVE OutputValueLoopTotalFirst(_, _, _)
OutputValueLoopTotalFirst(outputs, i, total) ==
    IF i > Len(outputs) THEN OkUnit
    ELSE LET value == outputs[i].value
             new_total == CheckedAdd(total, value)
         IN  IF new_total = -1 THEN Err("OutputsValueOverflow", <<>>)
             ELSE IF new_total > MAX_SOMPI THEN Err("TotalTxOutTooHigh", <<>>)
             ELSE IF value = 0 THEN Err("TxOutZero", <<i - 1>>)
             ELSE IF value > MAX_SOMPI THEN Err("TxOutTooHigh", <<i - 1>>)
             ELSE OutputValueLoopTotalFirst(outputs, i + 1, new_total)

\* the loop of check_transaction_output_value_ranges from output i (1-based) on,
\* with the running total
RECURSIVE OutputValueLoop(_, _, _)
OutputValueLoop(outputs, i, total) ==
    IF i > Len(outputs) THEN OkUnit
    ELSE LET value == outputs[i].value
             new_total == CheckedAdd(total, value)
         IN  IF value = 0 THEN Err("TxOutZero", <<i - 1>>)
             ELSE IF value > MAX_SOMPI THEN Err("TxOutTooHigh", <<i - 1>>)
             ELSE IF new_total = -1 THEN Err("OutputsValueOverflow", <<>>)
             ELSE IF new_total > MAX_SOMPI THEN Err("TotalTxOutTooHigh", <<>>)
             ELSE OutputValueLoop(outputs, i + 1, new_total)

check_transaction_output_value_ranges(tx) == OutputValueLoop(tx.outputs, 1, 0)

\* each input compared with the one before it only
check_duplicate_transaction_inputs_adjacent(tx) ==
    IF \E i \in 1..(Len(tx.inputs) - 1) :
          tx.inputs[i].previous_outpoint = tx.inputs[i + 1].previous_outpoint
    THEN Err("TxDuplicateInputs", <<>>)
    ELSE OkUnit

check_duplicate_transaction_inputs(tx) ==
    IF \E i, j \in 1..Len(tx.inputs) :
          i < j /\ tx.inputs[i].previous_outpoint = tx.inputs[j].previous_outpoint
    THEN Err("TxDuplicateInputs", <<>>)
    ELSE OkUnit

check_gas(tx) == IF tx.gas > 0 THEN Err("TxHasGas", <<>>) ELSE OkUnit

check_transaction_payload(tx) ==
    IF ~is_coinbase(tx) /\ tx.payload # <<>> THEN Err("NonCoinbaseTxHasPayload", <<>>)
    ELSE OkUnit

check_transaction_version(tx) ==
    IF tx.version # TX_VERSION THEN Err("UnknownTxVersion", <<tx.version>>) ELSE OkUnit

validate_tx_in_isolation(tx) ==
    AndThen(check_transaction_inputs_in_isolation(tx),
    AndThen(check_transaction_outputs_in_isolation(tx),
    AndThen(check_coinbase_in_isolation(tx),
    AndThen(check_transaction_output_value_ranges(tx),
    AndThen(check_duplicate_transaction_inputs(tx),
    AndThen(check_gas(tx),
    AndThen(check_transaction_payload(tx),
            check_transaction_version(tx))))))))

-----------------------------------------------------------------------------
(* BlockBodyProcessor: body_validation_in_isolation.rs *)

Header(parents, hash_merkle_root, daa_score) ==
    [parents |-> parents, hash_merkle_root |-> hash_merkle_root, daa_score |-> daa_score]

Block(header, transactions) == [header |-> header, transactions |-> transactions]

\* line 9
storage_mass_activated(b) == b.header.daa_score > storage_mass_activation_daa_score

check_has_transactions(b) ==
    IF b.transactions = <<>> THEN Err("NoTransactions", <<>>) ELSE OkUnit

\* the root recomputed without the storage-mass flag
check_hash_merkle_root_no_flag(b, activated) ==
    LET calculated == calc_hash_merkle_root_with_options(b.transactions, FALSE)
    IN  IF calculated # b.header.hash_merkle_root
        THEN Err("BadMerkleRoot", <<b.header.hash_merkle_root, calculated>>)
        ELSE OkUnit

check_hash_merkle_root(b, activated) ==
    LET calculated == calc_hash_merkle_root_with_options(b.transactions, activated)
    IN  IF calculated # b.header.hash_merkle_root
        THEN Err("BadMerkleRoot", <<b.header.hash_merkle_root, calculated>>)
        ELSE OkUnit

\* the second coinbase reported by its position in the block
check_only_one_coinbase_block_position(b) ==
    LET later == {i \in 2..Len(b.transactions) : is_coinbase(b.transactions[i])}
    IN  IF ~is_coinbase(b.transactions[1]) THEN Err("FirstTxNotCoinbase", <<>>)
        ELSE IF later # {} THEN Err("MultipleCoinbases", <<Min(later) - 1>>)
        ELSE OkUnit

\* transactions[0] is read unguarded: the check is only defined on a block that
\* has transactions
check_only_one_coinbase(b) ==
    LET tail == Tail(b.transactions)
        p == Position([i \in 1..Len(tail) |-> is_coinbase(tail[i])])
    IN  IF ~is_coinbase(b.transactions[1]) THEN Err("FirstTxNotCoinbase", <<>>)
        ELSE IF p # 0 THEN Err("MultipleCoinbases", <<p - 1>>)
        ELSE OkUnit

RECURSIVE IsolationLoop(_, _)
IsolationLoop(txs, i) ==
    IF i > Len(txs) THEN OkUnit
    ELSE LET e == validate_tx_in_isolation(txs[i])
         IN  IF ~e.ok THEN Err("TxInIsolationValidationFailed", <<TxId(txs[i]), e>>)
             ELSE IsolationLoop(txs, i + 1)

\* the loop run to its end, keeping the last failure
check_transactions_in_isolation_last_failure(b) ==
    LET txs == b.transactions
        Fails(tx) == ~validate_tx_in_isolation(tx).ok
    IN  IF \E i \in 1..Len(txs) : Fails(txs[i])
        THEN LET k == CHOOSE i \in 1..Len(txs) :
                          Fails(txs[i]) /\ \A j \in (i + 1)..Len(txs) : ~Fails(txs[j])
             IN  Err("TxInIsolationValidationFailed",
                     <<TxId(txs[k]), validate_tx_in_isolation(txs[k])>>)
        ELSE OkUnit

check_transactions_in_isolation(b) == IsolationLoop(b.transactions, 1)

\* the storage-mass loop with the limit tested before the mass field
RECURSIVE CommittedMassLoopLimitFirst(_, _, _)
CommittedMassLoopLimitFirst(txs, i, total_mass) ==
    IF i > Len(txs) THEN Ok(total_mass)
    ELSE LET calculated_tx_compute_mass == calc_tx_compute_mass(txs[i])
             committed_contextual_mass == txs[i].mass
             new_total == SaturatingAdd(total_mass, committed_contextual_mass)
         IN  IF new_total > max_block_mass
             THEN Err("ExceedsMassLimit", <<max_block_mass>>)
             ELSE IF committed_contextual_mass < calculated_tx_compute_mass
                  THEN Err("MassFieldTooLow",
                           <<TxId(txs[i]), committed_contextual_mass, calculated_tx_compute_mass>>)
             ELSE CommittedMassLoopLimitFirst(txs, i + 1, new_total)

\* the loop of the storage-mass branch from transaction i (1-based) on
RECURSIVE CommittedMassLoop(_, _, _)
CommittedMassLoop(txs, i, total_mass) ==
    IF i > Len(txs) THEN Ok(total_mass)
    ELSE LET calculated_tx_compute_mass == calc_tx_compute_mass(txs[i])
             committed_contextual_mass == txs[i].mass
             new_total == SaturatingAdd(total_mass, committed_contextual_mass)
         IN  IF committed_contextual_mass < calculated_tx_compute_mass
             THEN Err("MassFieldTooLow",
                      <<TxId(txs[i]), committed_contextual_mass, calculated_tx_compute_mass>>)
             ELSE IF new_total > max_block_mass
                  THEN Err("ExceedsMassLimit", <<max_block_mass>>)
             ELSE CommittedMassLoop(txs, i + 1, new_total)

\* the loop of the other branch
RECURSIVE ComputeMassLoop(_, _, _)
ComputeMassLoop(txs, i, total_mass) ==
    IF i > Len(txs) THEN Ok(total_mass)
    ELSE LET new_total == SaturatingAdd(total_mass, calc_tx_compute_mass(txs[i]))
         IN  IF new_total > max_block_mass
             THEN Err("ExceedsMassLimit", <<max_block_mass>>)
             ELSE ComputeMassLoop(txs, i + 1, new_total)

\* the committed masses summed whatever the activation
check_block_mass_always_committed(b, activated) == CommittedMassLoop(b.transactions, 1, 0)

check_block_mass(b, activated) ==
    IF activated THEN CommittedMassLoop(b.transactions, 1, 0)
    ELSE ComputeMassLoop(b.transactions, 1, 0)

\* block.transactions.iter().flat_map(|tx| &tx.inputs)
RECURSIVE FlatInputs(_)
FlatInputs(txs) ==
    IF txs = <<>> THEN <<>> ELSE Head(txs).inputs \o FlatInputs(Tail(txs))

\* the first position of the sequence of keys whose key occurred at an earlier
\* position, 0 if none: the loop `if !existing.insert(key) { return ... }`
FirstRepeat(keys) ==
    LET Repeats(i) == \E j \in 1..(i - 1) : keys[j] = keys[i]
    IN  IF \E i \in 1..Len(keys) : Repeats(i)
        THEN Min({i \in 1..Len(keys) : Repeats(i)}) ELSE 0

\* outpoints compared by transaction id alone
check_block_double_spends_by_id(b) ==
    LET inputs == FlatInputs(b.transactions)
        p == FirstRepeat([i \in 1..Len(inputs) |-> inputs[i].previous_outpoint.transaction_id])
    IN  IF p # 0 THEN Err("DoubleSpendInSameBlock", <<inputs[p].previous_outpoint>>)
        ELSE OkUnit

check_block_double_spends(b) ==
    LET inputs == FlatInputs(b.transactions)
        p == FirstRepeat([i \in 1..Len(inputs) |-> inputs[i].previous_outpoint])
    IN  IF p # 0 THEN Err("DoubleSpendInSameBlock", <<inputs[p].previous_outpoint>>)
        ELSE OkUnit

\* only the outputs of the transactions up to the spender are looked up
check_no_chained_transactions_earlier_only(b) ==
    LET txs == b.transactions
        Created(n) ==
            UNION {{TransactionOutpoint(TxId(txs[t]), index) :
                        index \in 0..(Len(txs[t].outputs) - 1)} : t \in 1..n}
        chained == {t \in 1..Len(txs) : \E i \in 1..Len(txs[t].inputs) :
                        txs[t].inputs[i].previous_outpoint \in Created(t)}
    IN  IF chained # {}
        THEN LET t == Min(chained)
                 i == Min({k \in 1..Len(txs[t].inputs) :
                              txs[t].inputs[k].previous_outpoint \in Created(t)})
             IN  Err("ChainedTransaction", <<txs[t].inputs[i].previous_outpoint>>)
        ELSE OkUnit

check_no_chained_transactions(b) ==
    LET txs == b.transactions
        block_created_outpoints ==
            UNION {{TransactionOutpoint(TxId(txs[t]), index) :
                        index \in 0..(Len(txs[t].outputs) - 1)} : t \in 1..Len(txs)}
        inputs == FlatInputs(txs)
        p == Position([i \in 1..Len(inputs) |->
                          inputs[i].previous_outpoint \in block_created_outpoints])
    IN  IF p # 0 THEN Err("ChainedTransaction", <<inputs[p].previous_outpoint>>)
        ELSE OkUnit

\* transactions compared whole instead of by id
check_duplicate_transactions_by_value(b) ==
    LET p == FirstRepeat(b.transactions)
    IN  IF p # 0 THEN Err("DuplicateTransactions", <<TxId(b.transactions[p])>>)
        ELSE OkUnit

check_duplicate_transactions(b) ==
    LET p == FirstRepeat([i \in 1..Len(b.transactions) |-> TxId(b.transactions[i])])
    IN  IF p # 0 THEN Err("DuplicateTransactions", <<TxId(b.transactions[p])>>)
        ELSE OkUnit

\* the order with the duplicate-transaction check after the double-spend check
CheckOrderDoubleSpendsFirst ==
    <<"check_has_transactions", "check_hash_merkle_root", "check_only_one_coinbase",
      "check_transactions_in_isolation", "check_block_mass",
      "check_block_double_spends", "check_duplicate_transactions",
      "check_no_chained_transactions">>

\* the order with the coinbase placement checked before the merkle root
CheckOrderCoinbaseFirst ==
    <<"check_has_transactions", "check_only_one_coinbase", "check_hash_merkle_root",
      "check_transactions_in_isolation", "check_block_mass",
      "check_duplicate_transactions", "check_block_double_spends",
      "check_no_chained_transactions">>

\* the order with the merkle root recomputed before the list is known to be non-empty
CheckOrderMerkleFirst ==
    <<"check_hash_merkle_root", "check_has_transactions", "check_only_one_coinbase",
      "check_transactions_in_isolation", "check_block_mass",
      "check_duplicate_transactions", "check_block_double_spends",
      "check_no_chained_transactions">>

\* the order with the double-spend check ahead of the transactions' own checks
CheckOrderDoubleSpendsBeforeIsolation ==
    <<"check_has_transactions", "check_hash_merkle_root", "check_only_one_coinbase",
      "check_block_double_spends", "check_transactions_in_isolation", "check_block_mass",
      "check_duplicate_transactions", "check_no_chained_transactions">>

\* lines 11-18: the checks in the order validate_body_in_isolation calls them
CheckOrder ==
    <<"check_has_transactions", "check_hash_merkle_root", "check_only_one_coinbase",
      "check_transactions_in_isolation", "check_block_mass",
      "check_duplicate_transactions", "check_block_double_spends",
      "check_no_chained_transactions">>

\* one check, by name, on block b
RunCheck(name, b) ==
    CASE name = "check_has_transactions" -> check_has_transactions(b)
      [] name = "check_hash_merkle_root" ->
             check_hash_merkle_root(b, storage_mass_activated(b))
      [] name = "check_only_one_coinbase" -> check_only_one_coinbase(b)
      [] name = "check_transactions_in_isolation" -> check_transactions_in_isolation(b)
      [] name = "check_block_mass" -> check_block_mass(b, storage_mass_activated(b))
      [] name = "check_duplicate_transactions" -> check_duplicate_transactions(b)
      [] name = "check_block_double_spends" -> check_block_double_spends(b)
      [] name = "check_no_chained_transactions" -> check_no_chained_transactions(b)

\* validate_body_in_isolation from its k-th check on, m the mass found so far
RECURSIVE ValidateFrom(_, _, _)
ValidateFrom(b, k, m) ==
    IF k > Len(CheckOrder) THEN Ok(m)
    ELSE LET r == RunCheck(CheckOrder[k], b)
         IN  IF ~r.ok THEN r
             ELSE ValidateFrom(b, k + 1,
                               IF CheckOrder[k] = "check_block_mass" THEN r.args[1] ELSE m)

\* the function as its callers see it
validate_body_in_isolation(b) == ValidateFrom(b, 1, 0)

-----------------------------------------------------------------------------
(* The blocks validated: every list of at most MaxTxs transactions of a pool
   built the way the tests build theirs, from a valid coinbase and a valid
   native transaction changed in one respect, under headers that commit to the
   list, to the list hashed the other way, or to another list *)

\* a transaction of an earlier block, whose outputs the pool's inputs spend
PrevTx(n) ==
    Transaction(TX_VERSION, <<>>, <<TransactionOutput(1, <<n>>)>>,
                SUBNETWORK_ID_COINBASE, 0, <<n>>, 0)

PrevOut(n, index) == TransactionOutpoint(TxId(PrevTx(n)), index)

Out1 == TransactionOutput(1, <<1>>)

Native(inputs, m) ==
    Transaction(TX_VERSION, inputs, <<Out1>>, SUBNETWORK_ID_NATIVE, 0, <<>>, m)

\* valid coinbase, compute mass 2
TxCoinbase == Transaction(TX_VERSION, <<>>, <<Out1>>, SUBNETWORK_ID_COINBASE, 0, <<9>>, 2)
\* valid native transactions, compute mass 3; TxB commits to more than that
TxA == Native(<<TransactionInput(PrevOut(1, 0), <<>>, 0)>>, 3)
TxB == Native(<<TransactionInput(PrevOut(2, 0), <<>>, 0)>>, 4)
\* TxA with a mass commitment that alone exceeds what a block has left
TxAHigh == Native(<<TransactionInput(PrevOut(1, 0), <<>>, 0)>>, 9)
\* spend the outpoints of TxB and TxA, in this order and in the other
TxSpendBA ==
    Native(<<TransactionInput(PrevOut(2, 0), <<>>, 0), TransactionInput(PrevOut(1, 0), <<>>, 0)>>, 4)
TxSpendAB ==
    Native(<<TransactionInput(PrevOut(1, 0), <<>>, 0), TransactionInput(PrevOut(2, 0), <<>>, 0)>>, 4)
\* signature operations: compute mass 6
TxHeavy == Native(<<TransactionInput(PrevOut(2, 1), <<>>, 1)>>, 6)
\* compute mass 12, committed mass 9
TxLowBig == Native(<<TransactionInput(PrevOut(1, 1), <<>>, 3)>>, 9)
\* rejected in isolation: no inputs; the same outpoint twice
TxNoInputs == Native(<<>>, 2)
TxDupInputs ==
    Native(<<TransactionInput(PrevOut(1, 0), <<>>, 0), TransactionInput(PrevOut(1, 0), <<>>, 0)>>, 4)
\* spend output 0 of TxA, which exists, and output 1, which does not
TxChained == Native(<<TransactionInput(TransactionOutpoint(TxId(TxA), 0), <<>>, 0)>>, 3)
TxChainedHigh == Native(<<TransactionInput(TransactionOutpoint(TxId(TxA), 1), <<>>, 0)>>, 3)

Pool ==
    {TxCoinbase, TxA, TxB, TxAHigh, TxSpendBA, TxSpendAB, TxHeavy, TxLowBig, TxNoInputs,
     TxDupInputs, TxChained, TxChainedHigh}

TxLists == UNION {[1..k -> Pool] : k \in 0..MaxTxs}

\* the root of a list that is none of TxLists
OtherRoot == calc_hash_merkle_root_with_options(<<PrevTx(1)>>, FALSE)

\* the parents of a header: all known, or one missing
ParentsKnown == "known"
ParentsMissing == "missing"

Roots(txs) ==
    {calc_hash_merkle_root_with_options(txs, FALSE),
     calc_hash_merkle_root_with_options(txs, TRUE), OtherRoot}

DaaScores == {storage_mass_activation_daa_score, storage_mass_activation_daa_score + 1}

-----------------------------------------------------------------------------
(* validate_body_in_isolation, check by check *)

\* no call is under way on a handle; done counts the calls that returned
NoCall == [stage |-> "idle", op |-> "", handle |-> 0, done |-> 0]

\* no handle is followed one by one
NoHandles ==
    /\ cells = <<>>
    /\ owners = <<>>
    /\ borrow_flag = <<>>
    /\ in_call = NoCall

\* no script builder was made
NoScriptBuilder ==
    /\ script_builder = <<>>
    /\ handles = 0
    /\ calls = <<>>
    /\ returned = Pending
    /\ NoHandles

\* no transaction is being validated on its own
TxValidatorIdle ==
    /\ validated_tx = TxCoinbase
    /\ tx_pc = "done"
    /\ tx_executed = <<>>
    /\ tx_result = Pending

\* the position after check `name`: the next check, or the return of line 19
NextPc(name) ==
    LET k == CHOOSE i \in 1..Len(CheckOrder) : CheckOrder[i] = name
    IN  IF k = Len(CheckOrder) THEN "return" ELSE CheckOrder[k + 1]

Init ==
    /\ \E txs \in TxLists, daa \in DaaScores :
          \E root \in Roots(txs) :
              block = Block(Header(ParentsKnown, root, daa), txs)
    /\ pc = CheckOrder[1]
    /\ executed = <<>>
    /\ mass = 0
    /\ result = Pending
    /\ statuses = <<>> /\ submitted = <<>> /\ outcome = Pending /\ history = <<>>
    /\ TxValidatorIdle
    /\ NoScriptBuilder

\* `let v = check(block)?`: an error r of the check at `name` is returned at once,
\* a success moves on to the next check
Try(name, r) ==
    /\ pc = name
    /\ executed' = Append(executed, name)
    /\ IF r.ok
       THEN /\ pc' = NextPc(name)
            /\ mass' = IF name = "check_block_mass" THEN r.args[1] ELSE mass
            /\ result' = result
       ELSE /\ pc' = "done"
            /\ mass' = mass
            /\ result' = r
    /\ UNCHANGED <<block, pipeline_vars, tx_vars, builder_vars, handle_vars>>

CheckHasTransactions ==
    /\ pc = "check_has_transactions"
    /\ Try("check_has_transactions", check_has_transactions(block))

CheckHashMerkleRoot ==
    /\ pc = "check_hash_merkle_root"
    /\ Try("check_hash_merkle_root",
           check_hash_merkle_root(block, storage_mass_activated(block)))

CheckOnlyOneCoinbase ==
    /\ pc = "check_only_one_coinbase"
    /\ Try("check_only_one_coinbase", check_only_one_coinbase(block))

CheckTransactionsInIsolation ==
    /\ pc = "check_transactions_in_isolation"
    /\ Try("check_transactions_in_isolation", check_transactions_in_isolation(block))

CheckBlockMass ==
    /\ pc = "check_block_mass"
    /\ Try("check_block_mass", check_block_mass(block, storage_mass_activated(block)))

CheckDuplicateTransactions ==
    /\ pc = "check_duplicate_transactions"
    /\ Try("check_duplicate_transactions", check_duplicate_transactions(block))

CheckBlockDoubleSpends ==
    /\ pc = "check_block_double_spends"
    /\ Try("check_block_double_spends", check_block_double_spends(block))

CheckNoChainedTransactions ==
    /\ pc = "check_no_chained_transactions"
    /\ Try("check_no_chained_transactions", check_no_chained_transactions(block))

\* line 19: Ok(mass)
ReturnOk ==
    /\ pc = "return"
    /\ pc' = "done"
    /\ result' = Ok(mass)
    /\ UNCHANGED <<block, executed, mass, pipeline_vars, tx_vars, builder_vars, handle_vars>>

Next ==
    \/ CheckHasTransactions
    \/ CheckHashMerkleRoot
    \/ CheckOnlyOneCoinbase
    \/ CheckTransactionsInIsolation
    \/ CheckBlockMass
    \/ CheckDuplicateTransactions
    \/ CheckBlockDoubleSpends
    \/ CheckNoChainedTransactions
    \/ ReturnOk

Spec == Init /\ [][Next]_vars

Done == pc = "done"

\* the model's two views of the function agree
StepsMatchFunction == Done => SameResult(result, validate_body_in_isolation(block))

-----------------------------------------------------------------------------
(* The block pipeline around the body processor: validate_and_insert_block
   and the status store that remembers invalid blocks *)

\* the header processor's part: a header with a parent that is not known
validate_header(b) ==
    IF b.header.parents = ParentsMissing THEN Err("MissingParents", <<>>) ELSE OkUnit

\* header validation, then body validation
validate_block(b) == AndThen(validate_header(b), validate_body_in_isolation(b))

\* the errors that leave the block's status alone
NonCacheable == {"BadMerkleRoot", "MissingParents"}

\* the status of header h after its block was validated with result r
StatusAfter(old, r) ==
    IF r.ok THEN "valid"
    ELSE IF r.err \in NonCacheable THEN old
    ELSE "invalid"

\* the blocks submitted: valid blocks, blocks the body processor rejects, and
\* each of them under a header with another merkle root or a missing parent
\* (the outer flow queues no block without transactions: lines 23-24)
PipelineLists ==
    {<<TxA>>, <<TxCoinbase, TxA>>, <<TxCoinbase, TxB>>, <<TxCoinbase, TxA, TxChained>>}

PipelineBlocks ==
    UNION {UNION {{Block(Header(parents, root, storage_mass_activation_daa_score), txs) :
                      root \in {calc_hash_merkle_root_with_options(txs, FALSE), OtherRoot}} :
                  parents \in {ParentsKnown, ParentsMissing}} :
           txs \in PipelineLists}

PipelineHeaders == {b.header : b \in PipelineBlocks}

InitPipeline ==
    /\ statuses = [h \in PipelineHeaders |-> "none"]
    /\ submitted = <<>>
    /\ outcome = Pending
    /\ history = {}
    /\ block = Block(Header(ParentsKnown, OtherRoot, storage_mass_activation_daa_score), <<>>)
    /\ pc = "done"
    /\ executed = <<>>
    /\ mass = 0
    /\ result = Pending
    /\ TxValidatorIdle
    /\ NoScriptBuilder

\* validate_and_insert_block(b): a block known as invalid is refused without
\* validation; any other is validated, and its status follows the result
Submit(b) ==
    /\ Cardinality(history) < MaxSubmissions
    /\ LET r == IF statuses[b.header] = "invalid" THEN Err("KnownInvalid", <<>>)
                ELSE validate_block(b)
       IN  /\ outcome' = r
           /\ statuses' = IF statuses[b.header] = "invalid" THEN statuses
                          ELSE [statuses EXCEPT ![b.header] = StatusAfter(@, r)]
    /\ submitted' = <<b>>
    /\ history' = IF submitted = <<>> THEN history
                  ELSE history \cup {<<submitted[1], outcome.err>>}
    /\ UNCHANGED <<body_vars, tx_vars, builder_vars, handle_vars>>

NextPipeline == \E b \in PipelineBlocks : Submit(b)

SpecPipeline == InitPipeline /\ [][NextPipeline]_vars

-----------------------------------------------------------------------------
(* validate_tx_in_isolation, check by check, on the transactions of
   validate_tx_in_isolation_test and their neighbours: input and output lists
   up to one past the configured limits, scripts at and past their limits,
   values at zero, within and past MAX_SOMPI, either subnetwork, with and
   without gas, payload and a known version *)

\* a script of n bytes
ScriptOfLen(n) == [i \in 1..n |-> 0]

In(n, script_len) == TransactionInput(PrevOut(n, 0), ScriptOfLen(script_len), 0)

InputKinds ==
    {In(1, 0), In(2, max_signature_script_len), In(3, 0),
     In(1, max_signature_script_len + 1)}

\* every list within the limit, and the list of the test that is one too long
InputLists ==
    UNION {[1..k -> InputKinds] : k \in 0..max_tx_inputs}
        \cup {[i \in 1..(max_tx_inputs + 1) |-> In(1, 0)]}

OutputKinds ==
    {TransactionOutput(1, ScriptOfLen(coinbase_payload_script_public_key_max_len)),
     TransactionOutput(MAX_SOMPI, ScriptOfLen(max_script_public_key_len)),
     TransactionOutput(0, ScriptOfLen(1)),
     TransactionOutput(MAX_SOMPI + 1, ScriptOfLen(1)),
     TransactionOutput(1, ScriptOfLen(max_script_public_key_len + 1))}

\* every list of fewer outputs than the limit, the lists of valid outputs at
\* the limit, and one list that is one too long
OutputLists ==
    UNION {[1..k -> OutputKinds] : k \in 0..(max_tx_outputs - 1)}
        \cup [1..max_tx_outputs ->
                 {TransactionOutput(1, ScriptOfLen(1)),
                  TransactionOutput(4, ScriptOfLen(max_script_public_key_len))}]
        \cup {[i \in 1..(max_tx_outputs + 1) |-> TransactionOutput(1, ScriptOfLen(1))]}

\* the order with the coinbase shape checked before the counts and sizes
TxCheckOrderCoinbaseFirst ==
    <<"check_coinbase_in_isolation", "check_transaction_inputs_count",
      "check_transaction_signature_scripts", "check_transaction_outputs_count",
      "check_transaction_script_public_keys", "check_transaction_output_value_ranges",
      "check_duplicate_transaction_inputs", "check_gas", "check_transaction_payload",
      "check_transaction_version">>

\* lines 11-20: the checks in the order validate_tx_in_isolation calls them,
\* the two count-and-size pairs of lines 23-31 unfolded
TxCheckOrder ==
    <<"check_transaction_inputs_count", "check_transaction_signature_scripts",
      "check_transaction_outputs_count", "check_transaction_script_public_keys",
      "check_coinbase_in_isolation", "check_transaction_output_value_ranges",
      "check_duplicate_transaction_inputs", "check_gas", "check_transaction_payload",
      "check_transaction_version">>

\* one check, by name, on transaction t
RunTxCheck(name, t) ==
    CASE name = "check_transaction_inputs_count" -> check_transaction_inputs_count(t)
      [] name = "check_transaction_signature_scripts" ->
             check_transaction_signature_scripts(t)
      [] name = "check_transaction_outputs_count" -> check_transaction_outputs_count(t)
      [] name = "check_transaction_script_public_keys" ->
             check_transaction_script_public_keys(t)
      [] name = "check_coinbase_in_isolation" -> check_coinbase_in_isolation(t)
      [] name = "check_transaction_output_value_ranges" ->
             check_transaction_output_value_ranges(t)
      [] name = "check_duplicate_transaction_inputs" ->
             check_duplicate_transaction_inputs(t)
      [] name = "check_gas" -> check_gas(t)
      [] name = "check_transaction_payload" -> check_transaction_payload(t)
      [] name = "check_transaction_version" -> check_transaction_version(t)

InitTx ==
    /\ \E inputs \in InputLists, outputs \in OutputLists,
          subnetwork_id \in {SUBNETWORK_ID_NATIVE, SUBNETWORK_ID_COINBASE},
          version \in {TX_VERSION, TX_VERSION + 1}, gas \in {0, 1},
          payload \in {<<>>, <<9>>} :
          validated_tx = Transaction(version, inputs, outputs, subnetwork_id, gas, payload, 0)
    /\ tx_pc = TxCheckOrder[1]
    /\ tx_executed = <<>>
    /\ tx_result = Pending
    /\ block = Block(Header(ParentsKnown, OtherRoot, storage_mass_activation_daa_score), <<>>)
    /\ pc = "done"
    /\ executed = <<>>
    /\ mass = 0
    /\ result = Pending
    /\ statuses = <<>> /\ submitted = <<>> /\ outcome = Pending /\ history = <<>>
    /\ NoScriptBuilder

\* `check(tx)?`: an error is returned at once, a success moves on to the next
\* check; the value of the last check is the value of the function
TxTry(name, r) ==
    /\ tx_pc = name
    /\ tx_executed' = Append(tx_executed, name)
    /\ IF r.ok /\ name # TxCheckOrder[Len(TxCheckOrder)]
       THEN /\ tx_pc' = TxCheckOrder[Len(tx_executed) + 2]
            /\ tx_result' = tx_result
       ELSE /\ tx_pc' = "done"
            /\ tx_result' = r
    /\ UNCHANGED <<validated_tx, body_vars, pipeline_vars, builder_vars, handle_vars>>

CheckTransactionInputsCount ==
    /\ tx_pc = "check_transaction_inputs_count"
    /\ TxTry("check_transaction_inputs_count", check_transaction_inputs_count(validated_tx))

CheckTransactionSignatureScripts ==
    /\ tx_pc = "check_transaction_signature_scripts"
    /\ TxTry("check_transaction_signature_scripts",
             check_transaction_signature_scripts(validated_tx))

CheckTransactionOutputsCount ==
    /\ tx_pc = "check_transaction_outputs_count"
    /\ TxTry("check_transaction_outputs_count", check_transaction_outputs_count(validated_tx))

CheckTransactionScriptPublicKeys ==
    /\ tx_pc = "check_transaction_script_public_keys"
    /\ TxTry("check_transaction_script_public_keys",
             check_transaction_script_public_keys(validated_tx))

CheckCoinbaseInIsolation ==
    /\ tx_pc = "check_coinbase_in_isolation"
    /\ TxTry("check_coinbase_in_isolation", check_coinbase_in_isolation(validated_tx))

CheckTransactionOutputValueRanges ==
    /\ tx_pc = "check_transaction_output_value_ranges"
    /\ TxTry("check_transaction_output_value_ranges",
             check_transaction_output_value_ranges(validated_tx))

CheckDuplicateTransactionInputs ==
    /\ tx_pc = "check_duplicate_transaction_inputs"
    /\ TxTry("check_duplicate_transaction_inputs",
             check_duplicate_transaction_inputs(validated_tx))

CheckGas ==
    /\ tx_pc = "check_gas"
    /\ TxTry("check_gas", check_gas(validated_tx))

CheckTransactionPayload ==
    /\ tx_pc = "check_transaction_payload"
    /\ TxTry("check_transaction_payload", check_transaction_payload(validated_tx))

CheckTransactionVersion ==
    /\ tx_pc = "check_transaction_version"
    /\ TxTry("check_transaction_version", check_transaction_version(validated_tx))

NextTx ==
    \/ CheckTransactionInputsCount
    \/ CheckTransactionSignatureScripts
    \/ CheckTransactionOutputsCount
    \/ CheckTransactionScriptPublicKeys
    \/ CheckCoinbaseInIsolation
    \/ CheckTransactionOutputValueRanges
    \/ CheckDuplicateTransactionInputs
    \/ CheckGas
    \/ CheckTransactionPayload
    \/ CheckTransactionVersion

SpecTx == InitTx /\ [][NextTx]_vars

TxDone == tx_pc = "done"

\* the model's two views of the function agree
TxStepsMatchFunction == TxDone => SameResult(tx_result, validate_tx_in_isolation(validated_tx))

-----------------------------------------------------------------------------
(* ScriptBuilder: consensus/client/src/script.rs, the binding over
   kaspa_txscript::script_builder::ScriptBuilder.  A script is a sequence of
   bytes, a byte a number of 0..255. *)

\* limits of the script engine; MAX_SCRIPTS_SIZE at model scale, above the
\* size of the largest push
MAX_SCRIPTS_SIZE == 600
MAX_SCRIPT_ELEMENT_SIZE == 520

\* opcodes the builder emits: 0x00, 0x01, 0x4c, 0x4d, 0x4e, 0x4f, 0x51
Op0 == 0
OpData1 == 1
OpPushData1 == 76
OpPushData2 == 77
OpPushData4 == 78
Op1Negate == 79
Op1 == 81

\* the opcode table names every byte
Opcodes == 0..255

\* what a call leaves behind: the value it returns and the buffer
Step(ret, buffer) == [ret |-> ret, script |-> buffer]

\* number n > 0 as little-endian bytes, without leading zero bytes
RECURSIVE LittleEndian(_)
LittleEndian(n) == IF n = 0 THEN <<>> ELSE <<n % 256>> \o LittleEndian(n \div 256)

\* the canonical script number of v: little-endian magnitude, the sign in the top
\* bit of the last byte, one more byte when the magnitude uses that bit
minimal_signed_magnitude(v) ==
    LET b == LittleEndian(IF v < 0 THEN 0 - v ELSE v)
        last == b[Len(b)]
    IN  IF v = 0 THEN <<>>
        ELSE IF last >= 128 THEN Append(b, IF v < 0 THEN 128 ELSE 0)
        ELSE IF v < 0 THEN [b EXCEPT ![Len(b)] = last + 128]
        ELSE b

\* the number of bytes the push of d takes
native_canonical_data_size(d) ==
    IF Len(d) = 0 THEN 1
    ELSE IF Len(d) = 1 /\ (d[1] <= 16 \/ d[1] = 129) THEN 1
    ELSE IF Len(d) < OpPushData1 THEN 1 + Len(d)
    ELSE IF Len(d) <= 255 THEN 2 + Len(d)
    ELSE IF Len(d) <= 65535 THEN 3 + Len(d)
    ELSE 5 + Len(d)

\* the push with the one-byte opcode kept for a payload of OpPushData1 bytes
CanonicalPushDirectAtThreshold(d) ==
    IF Len(d) = 0 THEN <<Op0>>
    ELSE IF Len(d) = 1 /\ d[1] = 0 THEN <<Op0>>
    ELSE IF Len(d) = 1 /\ d[1] >= 1 /\ d[1] <= 16 THEN <<Op1 + (d[1] - 1)>>
    ELSE IF Len(d) = 1 /\ d[1] = 129 THEN <<Op1Negate>>
    ELSE IF Len(d) <= OpPushData1 THEN <<OpData1 + (Len(d) - 1)>> \o d
    ELSE IF Len(d) <= 255 THEN <<OpPushData1, Len(d)>> \o d
    ELSE IF Len(d) <= 65535 THEN <<OpPushData2, Len(d) % 256, Len(d) \div 256>> \o d
    ELSE <<OpPushData4, Len(d) % 256, (Len(d) \div 256) % 256,
           (Len(d) \div 65536) % 256, Len(d) \div 16777216>> \o d

\* the push with Op0 for every payload that starts with a zero byte
CanonicalPushZeroFirstByte(d) ==
    IF Len(d) = 0 THEN <<Op0>>
    ELSE IF d[1] = 0 THEN <<Op0>>
    ELSE IF Len(d) = 1 /\ d[1] >= 1 /\ d[1] <= 16 THEN <<Op1 + (d[1] - 1)>>
    ELSE IF Len(d) = 1 /\ d[1] = 129 THEN <<Op1Negate>>
    ELSE IF Len(d) < OpPushData1 THEN <<OpData1 + (Len(d) - 1)>> \o d
    ELSE IF Len(d) <= 255 THEN <<OpPushData1, Len(d)>> \o d
    ELSE IF Len(d) <= 65535 THEN <<OpPushData2, Len(d) % 256, Len(d) \div 256>> \o d
    ELSE <<OpPushData4, Len(d) % 256, (Len(d) \div 256) % 256,
           (Len(d) \div 65536) % 256, Len(d) \div 16777216>> \o d

\* the canonical push of d
CanonicalPush(d) ==
    IF Len(d) = 0 THEN <<Op0>>
    ELSE IF Len(d) = 1 /\ d[1] = 0 THEN <<Op0>>
    ELSE IF Len(d) = 1 /\ d[1] >= 1 /\ d[1] <= 16 THEN <<Op1 + (d[1] - 1)>>
    ELSE IF Len(d) = 1 /\ d[1] = 129 THEN <<Op1Negate>>
    ELSE IF Len(d) < OpPushData1 THEN <<OpData1 + (Len(d) - 1)>> \o d
    ELSE IF Len(d) <= 255 THEN <<OpPushData1, Len(d)>> \o d
    ELSE IF Len(d) <= 65535 THEN <<OpPushData2, Len(d) % 256, Len(d) \div 256>> \o d
    ELSE <<OpPushData4, Len(d) % 256, (Len(d) \div 256) % 256,
           (Len(d) \div 65536) % 256, Len(d) \div 16777216>> \o d

native_add_op(s, op) ==
    IF Len(s) + 1 > MAX_SCRIPTS_SIZE THEN Step(Err("ScriptTooLong", <<>>), s)
    ELSE Step(OkUnit, Append(s, op))

native_add_ops(s, ops) ==
    IF Len(s) + Len(ops) > MAX_SCRIPTS_SIZE THEN Step(Err("ScriptTooLong", <<>>), s)
    ELSE IF \E i \in 1..Len(ops) : ops[i] \notin Opcodes
    THEN Step(Err("OpcodeRejected", <<ops[Min({i \in 1..Len(ops) : ops[i] \notin Opcodes})]>>), s)
    ELSE Step(OkUnit, s \o ops)

\* the push written whatever the size of its payload
native_add_data_any_element(s, d) ==
    IF Len(s) + native_canonical_data_size(d) > MAX_SCRIPTS_SIZE
    THEN Step(Err("ScriptTooLong", <<>>), s)
    ELSE Step(OkUnit, s \o CanonicalPush(d))

native_add_data(s, d) ==
    IF Len(d) > MAX_SCRIPT_ELEMENT_SIZE THEN Step(Err("ElementTooLarge", <<>>), s)
    ELSE IF Len(s) + native_canonical_data_size(d) > MAX_SCRIPTS_SIZE
    THEN Step(Err("ScriptTooLong", <<>>), s)
    ELSE Step(OkUnit, s \o CanonicalPush(d))

native_add_i64(s, v) ==
    IF v = 0 THEN native_add_op(s, Op0)
    ELSE IF v >= 1 /\ v <= 16 THEN native_add_op(s, Op1 + (v - 1))
    ELSE IF v = -1 THEN native_add_op(s, Op1Negate)
    ELSE native_add_data(s, minimal_signed_magnitude(v))

\* add_lock_time and add_sequence: add_i64 for an unsigned value
native_add_u64(s, v) == native_add_i64(s, v)

\* HexString::from: two hexadecimal digits for every byte, the high one first
HexString(bytes) ==
    [i \in 1..(2 * Len(bytes)) |->
        IF i % 2 = 1 THEN bytes[(i + 1) \div 2] \div 16 ELSE bytes[i \div 2] % 16]

\* the argument of a call as the binding receives it: bytes (a Uint8Array or a
\* hex string), something that is no bytes, or a number
Arg(binary, bytes, number) == [binary |-> binary, bytes |-> bytes, number |-> number]

try_as_vec_u8(arg) == IF arg.binary THEN Ok(arg.bytes) ELSE Err("NotBinary", <<>>)

\* lines 381-391
script(s) == Step(Ok(HexString(s)), s)

\* the bytes returned and the buffer kept
drain_without_clearing(s) == Step(Ok(HexString(s)), s)

drain(s) == Step(Ok(HexString(s)), <<>>)

\* lines 404-456: the value returned on success stands for the clone of the handle
add_op(s, op) == native_add_op(s, op)

\* the opcodes handed over one at a time
add_ops_one_by_one(s, opcodes) ==
    LET v == try_as_vec_u8(opcodes)
        fit == MAX_SCRIPTS_SIZE - Len(s)
    IN  IF ~v.ok THEN Step(v, s)
        ELSE IF Len(v.args[1]) > fit
        THEN Step(Err("ScriptTooLong", <<>>), s \o SubSeq(v.args[1], 1, fit))
        ELSE native_add_ops(s, v.args[1])

add_ops(s, opcodes) ==
    LET v == try_as_vec_u8(opcodes)
    IN  IF ~v.ok THEN Step(v, s) ELSE native_add_ops(s, v.args[1])

add_data(s, d) ==
    LET v == try_as_vec_u8(d)
    IN  IF ~v.ok THEN Step(v, s) ELSE native_add_data(s, v.args[1])

add_i64(s, value) == native_add_i64(s, value)
add_lock_time(s, lock_time) == native_add_u64(s, lock_time)
add_sequence(s, sequence) == native_add_u64(s, sequence)

\* the calls followed: at most MaxCalls of them on a builder
MaxCalls == 3

\* n bytes
Bytes(n) == Arg(TRUE, [i \in 1..n |-> 171], 0)

OpInputs == {Op1, 172}
OpsInputs ==
    {Arg(TRUE, <<118, 169>>, 0), Bytes(MAX_SCRIPTS_SIZE - 1), Bytes(MAX_SCRIPTS_SIZE + 1),
     Arg(FALSE, <<>>, 0)}
DataInputs ==
    {Bytes(0), Arg(TRUE, <<0>>, 0), Arg(TRUE, <<16>>, 0), Arg(TRUE, <<129>>, 0),
     Arg(TRUE, <<0, 1>>, 0), Bytes(OpPushData1 - 1), Bytes(OpPushData1), Bytes(256),
     Bytes(MAX_SCRIPT_ELEMENT_SIZE), Bytes(MAX_SCRIPT_ELEMENT_SIZE + 1), Arg(FALSE, <<>>, 0)}
I64Inputs == {0, -1, 17, -255}
U64Inputs == {16, 128}

\* new()
InitScript ==
    /\ script_builder = <<>>
    /\ handles = 1
    /\ calls = <<>>
    /\ returned = Pending
    /\ block = Block(Header(ParentsKnown, OtherRoot, storage_mass_activation_daa_score), <<>>)
    /\ pc = "done"
    /\ executed = <<>>
    /\ mass = 0
    /\ result = Pending
    /\ statuses = <<>> /\ submitted = <<>> /\ outcome = Pending /\ history = <<>>
    /\ TxValidatorIdle
    /\ NoHandles

\* a call op(arg) through a handle, st what it leaves behind; a mutator that
\* succeeds returns one more handle
Call(op, arg, st) ==
    /\ script_builder' = st.script
    /\ returned' = st.ret
    /\ calls' = Append(calls, [op |-> op, arg |-> arg, ok |-> st.ret.ok])
    /\ handles' = IF st.ret.ok /\ op \notin {"script", "data", "drain"}
                  THEN handles + 1 ELSE handles
    /\ UNCHANGED <<body_vars, pipeline_vars, tx_vars, handle_vars>>

\* new(): another builder, with a buffer of its own, followed from here on
New ==
    /\ Len(calls) < MaxCalls
    /\ script_builder' = <<>>
    /\ handles' = 1
    /\ returned' = OkUnit
    /\ calls' = Append(calls, [op |-> "new", arg |-> Arg(FALSE, <<>>, 0), ok |-> TRUE])
    /\ UNCHANGED <<body_vars, pipeline_vars, tx_vars, handle_vars>>

\* a handle exists, and the calls followed are not used up
Callable == handles >= 1 /\ Len(calls) < MaxCalls

Data ==
    /\ Callable
    /\ Call("data", Arg(FALSE, <<>>, 0), script(script_builder))

Script ==
    /\ Callable
    /\ Call("script", Arg(FALSE, <<>>, 0), script(script_builder))

Drain ==
    /\ Callable
    /\ Call("drain", Arg(FALSE, <<>>, 0), drain(script_builder))

AddOp ==
    /\ Callable
    /\ \E op \in OpInputs :
          Call("add_op", Arg(FALSE, <<>>, op), add_op(script_builder, op))

AddOps ==
    /\ Callable
    /\ \E opcodes \in OpsInputs :
          Call("add_ops", opcodes, add_ops(script_builder, opcodes))

AddData ==
    /\ Callable
    /\ \E d \in DataInputs : Call("add_data", d, add_data(script_builder, d))

AddI64 ==
    /\ Callable
    /\ \E value \in I64Inputs :
          Call("add_i64", Arg(FALSE, <<>>, value), add_i64(script_builder, value))

AddLockTime ==
    /\ Callable
    /\ \E lock_time \in U64Inputs :
          Call("add_lock_time", Arg(FALSE, <<>>, lock_time),
               add_lock_time(script_builder, lock_time))

AddSequence ==
    /\ Callable
    /\ \E sequence \in U64Inputs :
          Call("add_sequence", Arg(FALSE, <<>>, sequence),
               add_sequence(script_builder, sequence))

NextScript ==
    \/ New
    \/ Data
    \/ Script
    \/ Drain
    \/ AddOp
    \/ AddOps
    \/ AddData
    \/ AddI64
    \/ AddLockTime
    \/ AddSequence

SpecScript == InitScript /\ [][NextScript]_vars

-----------------------------------------------------------------------------
(* The handles of a ScriptBuilder: struct ScriptBuilder holds an
   Rc<RefCell<native::ScriptBuilder>>; new() allocates the cell, a clone and
   the value a successful add_* returns are further Rc's; every method borrows
   the cell through inner() or inner_mut() and gives the borrow back when it
   returns. Calls are made one after the other. *)

\* at most MaxHandles handles are kept, at most MaxHandleCalls calls followed
MaxHandles == 3
MaxHandleCalls == 3

\* a handle is the cell its Rc points to, the new() its builder comes from, and
\* how it was obtained ("new", "clone", or "add" for a returned builder)

\* a clone that copies the buffer into a cell of its own
clone_deep(hs, cs, h, by) ==
    [owners |-> Append(hs, [cell |-> Len(cs) + 1, origin |-> hs[h].origin, by |-> by]),
     cells |-> Append(cs, cs[hs[h].cell])]

\* #[derive(Clone)]: Rc::clone, another pointer to the same cell
clone(hs, cs, h, by) ==
    [owners |-> Append(hs, [cell |-> hs[h].cell, origin |-> hs[h].origin, by |-> by]), cells |-> cs]

\* the calls made through a handle, each with one argument
HandleOps ==
    {"script", "data", "drain", "add_op", "add_ops", "add_data", "add_data_too_large",
     "add_data_no_bytes", "add_i64", "add_lock_time", "add_sequence"}

ArgOf(op) ==
    IF op = "add_data" THEN Arg(TRUE, <<0, 1>>, 0)
    ELSE IF op = "add_ops" THEN Arg(TRUE, <<118, 169>>, 0)
    ELSE IF op = "add_data_too_large" THEN Bytes(MAX_SCRIPT_ELEMENT_SIZE + 1)
    ELSE Arg(FALSE, <<>>, 17)

\* what the body of the method does to the buffer s it has borrowed
RunOn(s, op) ==
    IF op \in {"script", "data"} THEN script(s)
    ELSE IF op = "drain" THEN drain(s)
    ELSE IF op = "add_op" THEN add_op(s, Op1)
    ELSE IF op = "add_ops" THEN add_ops(s, ArgOf(op))
    ELSE IF op \in {"add_data", "add_data_too_large", "add_data_no_bytes"}
    THEN add_data(s, ArgOf(op))
    ELSE IF op = "add_i64" THEN add_i64(s, ArgOf(op).number)
    ELSE IF op = "add_lock_time" THEN add_lock_time(s, ArgOf(op).number)
    ELSE add_sequence(s, ArgOf(op).number)

\* inner() borrows shared, inner_mut() exclusively
BorrowsShared(op) == op \in {"script", "data"}

\* RefCell::borrow and borrow_mut on a cell with borrow flag f (0: not
\* borrowed, n > 0: n shared borrows, -1: borrowed exclusively): the new flag,
\* or "panic"
try_borrow(f, shared) ==
    IF shared THEN (IF f >= 0 THEN [ok |-> TRUE, flag |-> f + 1] ELSE [ok |-> FALSE, flag |-> f])
    ELSE (IF f = 0 THEN [ok |-> TRUE, flag |-> -1] ELSE [ok |-> FALSE, flag |-> f])

InitHandles ==
    /\ cells = <<>>
    /\ owners = <<>>
    /\ borrow_flag = <<>>
    /\ in_call = NoCall
    /\ script_builder = <<>> /\ handles = 0 /\ calls = <<>> /\ returned = Pending
    /\ block = Block(Header(ParentsKnown, OtherRoot, storage_mass_activation_daa_score), <<>>)
    /\ pc = "done"
    /\ executed = <<>>
    /\ mass = 0
    /\ result = Pending
    /\ statuses = <<>> /\ submitted = <<>> /\ outcome = Pending /\ history = <<>>
    /\ TxValidatorIdle

\* the handles and cells after a handle was added by a clone; the flags of
\* the cells there are
Keep(c) ==
    /\ owners' = c.owners
    /\ cells' = c.cells
    /\ borrow_flag' = [i \in 1..Len(c.cells) |-> IF i <= Len(borrow_flag) THEN borrow_flag[i] ELSE 0]

\* new(): Rc::new(RefCell::new(native::ScriptBuilder::new()))
NewBuilder ==
    /\ in_call.stage = "idle"
    /\ Len(owners) < MaxHandles
    /\ cells' = Append(cells, <<>>)
    /\ borrow_flag' = Append(borrow_flag, 0)
    /\ owners' = Append(owners, [cell |-> Len(cells) + 1, origin |-> Len(cells) + 1, by |-> "new"])
    /\ UNCHANGED <<in_call, body_vars, pipeline_vars, tx_vars, builder_vars>>

\* the caller clones a handle
CloneHandle ==
    /\ in_call.stage = "idle"
    /\ Len(owners) < MaxHandles
    /\ \E h \in DOMAIN owners : Keep(clone(owners, cells, h, "clone"))
    /\ UNCHANGED <<in_call, body_vars, pipeline_vars, tx_vars, builder_vars>>

\* a method is entered through handle h: add_ops and add_data convert their
\* argument first and return at once if that fails; then the cell is borrowed
Enter ==
    /\ in_call.stage = "idle"
    /\ in_call.done < MaxHandleCalls
    /\ \E h \in DOMAIN owners, op \in HandleOps :
          IF op \in {"add_ops", "add_data", "add_data_too_large", "add_data_no_bytes"}
                /\ ~try_as_vec_u8(ArgOf(op)).ok
          THEN /\ in_call' = [NoCall EXCEPT !.done = in_call.done + 1]
               /\ UNCHANGED borrow_flag
          ELSE LET b == try_borrow(borrow_flag[owners[h].cell], BorrowsShared(op))
               IN  /\ in_call' = [stage |-> IF b.ok THEN "borrowed" ELSE "panicked",
                                  op |-> op, handle |-> h, done |-> in_call.done]
                   /\ borrow_flag' = [borrow_flag EXCEPT ![owners[h].cell] = b.flag]
    /\ UNCHANGED <<cells, owners, body_vars, pipeline_vars, tx_vars, builder_vars>>

\* the native call on the borrowed buffer, and Ok(self.clone()) when a mutator
\* succeeded; the caller keeps the builder returned while it keeps fewer than
\* MaxHandles
Run ==
    /\ in_call.stage = "borrowed"
    /\ LET h == in_call.handle
           st == RunOn(cells[owners[h].cell], in_call.op)
           written == [cells EXCEPT ![owners[h].cell] = st.script]
       IN  IF st.ret.ok /\ in_call.op \notin {"script", "data", "drain"}
                /\ Len(owners) < MaxHandles
           THEN Keep(clone(owners, written, h, "add"))
           ELSE /\ cells' = written
                /\ UNCHANGED <<owners, borrow_flag>>
    /\ in_call' = [in_call EXCEPT !.stage = "applied"]
    /\ UNCHANGED <<body_vars, pipeline_vars, tx_vars, builder_vars>>

\* the method returns: the Ref or RefMut is dropped
Return ==
    /\ in_call.stage = "applied"
    /\ borrow_flag' = [borrow_flag EXCEPT ![owners[in_call.handle].cell] =
                          IF BorrowsShared(in_call.op) THEN @ - 1 ELSE 0]
    /\ in_call' = [NoCall EXCEPT !.done = in_call.done + 1]
    /\ UNCHANGED <<cells, owners, body_vars, pipeline_vars, tx_vars, builder_vars>>

NextHandles ==
    \/ NewBuilder
    \/ CloneHandle
    \/ Enter
    \/ Run
    \/ Return

SpecHandles == InitHandles /\ [][NextHandles]_vars

-----------------------------------------------------------------------------
(* The exported opcode table: TS_SCRIPT_OPCODES, script.rs lines 10-332 *)

\* the names of enum Opcode with the values written for them, in the order of
\* the declaration; every value is written as 0xa followed by the two
\* hexadecimal digits of a byte
TS_SCRIPT_OPCODES == <<
    <<"OpData1", 2561>>, <<"OpData2", 2562>>, <<"OpData3", 2563>>, <<"OpData4", 2564>>,
    <<"OpData5", 2565>>, <<"OpData6", 2566>>, <<"OpData7", 2567>>, <<"OpData8", 2568>>,
    <<"OpData9", 2569>>, <<"OpData10", 2570>>, <<"OpData11", 2571>>, <<"OpData12", 2572>>,
    <<"OpData13", 2573>>, <<"OpData14", 2574>>, <<"OpData15", 2575>>, <<"OpData16", 2576>>,
    <<"OpData17", 2577>>, <<"OpData18", 2578>>, <<"OpData19", 2579>>, <<"OpData20", 2580>>,
    <<"OpData21", 2581>>, <<"OpData22", 2582>>, <<"OpData23", 2583>>, <<"OpData24", 2584>>,
    <<"OpData25", 2585>>, <<"OpData26", 2586>>, <<"OpData27", 2587>>, <<"OpData28", 2588>>,
    <<"OpData29", 2589>>, <<"OpData30", 2590>>, <<"OpData31", 2591>>, <<"OpData32", 2592>>,
    <<"OpData33", 2593>>, <<"OpData34", 2594>>, <<"OpData35", 2595>>, <<"OpData36", 2596>>,
    <<"OpData37", 2597>>, <<"OpData38", 2598>>, <<"OpData39", 2599>>, <<"OpData40", 2600>>,
    <<"OpData41", 2601>>, <<"OpData42", 2602>>, <<"OpData43", 2603>>, <<"OpData44", 2604>>,
    <<"OpData45", 2605>>, <<"OpData46", 2606>>, <<"OpData47", 2607>>, <<"OpData48", 2608>>,
    <<"OpData49", 2609>>, <<"OpData50", 2610>>, <<"OpData51", 2611>>, <<"OpData52", 2612>>,
    <<"OpData53", 2613>>, <<"OpData54", 2614>>, <<"OpData55", 2615>>, <<"OpData56", 2616>>,
    <<"OpData57", 2617>>, <<"OpData58", 2618>>, <<"OpData59", 2619>>, <<"OpData60", 2620>>,
    <<"OpData61", 2621>>, <<"OpData62", 2622>>, <<"OpData63", 2623>>, <<"OpData64", 2624>>,
    <<"OpData65", 2625>>, <<"OpData66", 2626>>, <<"OpData67", 2627>>, <<"OpData68", 2628>>,
    <<"OpData69", 2629>>, <<"OpData70", 2630>>, <<"OpData71", 2631>>, <<"OpData72", 2632>>,
    <<"OpData73", 2633>>, <<"OpData74", 2634>>, <<"OpData75", 2635>>, <<"OpPushData1", 2636>>,
    <<"OpPushData2", 2637>>, <<"OpPushData4", 2638>>, <<"Op1Negate", 2639>>,
    <<"OpReserved", 2640>>, <<"Op1", 2641>>, <<"Op2", 2642>>, <<"Op3", 2643>>, <<"Op4", 2644>>,
    <<"Op5", 2645>>, <<"Op6", 2646>>, <<"Op7", 2647>>, <<"Op8", 2648>>, <<"Op9", 2649>>,
    <<"Op10", 2650>>, <<"Op11", 2651>>, <<"Op12", 2652>>, <<"Op13", 2653>>, <<"Op14", 2654>>,
    <<"Op15", 2655>>, <<"Op16", 2656>>, <<"OpNop", 2657>>, <<"OpVer", 2658>>, <<"OpIf", 2659>>,
    <<"OpNotIf", 2660>>, <<"OpVerIf", 2661>>, <<"OpVerNotIf", 2662>>, <<"OpElse", 2663>>,
    <<"OpEndIf", 2664>>, <<"OpVerify", 2665>>, <<"OpReturn", 2666>>, <<"OpToAltStack", 2667>>,
    <<"OpFromAltStack", 2668>>, <<"Op2Drop", 2669>>, <<"Op2Dup", 2670>>, <<"Op3Dup", 2671>>,
    <<"Op2Over", 2672>>, <<"Op2Rot", 2673>>, <<"Op2Swap", 2674>>, <<"OpIfDup", 2675>>,
    <<"OpDepth", 2676>>, <<"OpDrop", 2677>>, <<"OpDup", 2678>>, <<"OpNip", 2679>>,
    <<"OpOver", 2680>>, <<"OpPick", 2681>>, <<"OpRoll", 2682>>, <<"OpRot", 2683>>,
    <<"OpSwap", 2684>>, <<"OpTuck", 2685>>, <<"OpCat", 2686>>, <<"OpSubStr", 2687>>,
    <<"OpLeft", 2688>>, <<"OpRight", 2689>>, <<"OpSize", 2690>>, <<"OpInvert", 2691>>,
    <<"OpAnd", 2692>>, <<"OpOr", 2693>>, <<"OpXor", 2694>>, <<"OpEqual", 2695>>,
    <<"OpEqualVerify", 2696>>, <<"OpReserved1", 2697>>, <<"OpReserved2", 2698>>,
    <<"Op1Add", 2699>>, <<"Op1Sub", 2700>>, <<"Op2Mul", 2701>>, <<"Op2Div", 2702>>,
    <<"OpNegate", 2703>>, <<"OpAbs", 2704>>, <<"OpNot", 2705>>, <<"Op0NotEqual", 2706>>,
    <<"OpAdd", 2707>>, <<"OpSub", 2708>>, <<"OpMul", 2709>>, <<"OpDiv", 2710>>,
    <<"OpMod", 2711>>, <<"OpLShift", 2712>>, <<"OpRShift", 2713>>, <<"OpBoolAnd", 2714>>,
    <<"OpBoolOr", 2715>>, <<"OpNumEqual", 2716>>, <<"OpNumEqualVerify", 2717>>,
    <<"OpNumNotEqual", 2718>>, <<"OpLessThan", 2719>>, <<"OpGreaterThan", 2720>>,
    <<"OpLessThanOrEqual", 2721>>, <<"OpGreaterThanOrEqual", 2722>>, <<"OpMin", 2723>>,
    <<"OpMax", 2724>>, <<"OpWithin", 2725>>, <<"OpUnknown166", 2726>>,
    <<"OpUnknown167", 2727>>, <<"OpSha256", 2728>>, <<"OpCheckMultiSigECDSA", 2729>>,
    <<"OpBlake2b", 2730>>, <<"OpCheckSigECDSA", 2731>>, <<"OpCheckSig", 2732>>,
    <<"OpCheckSigVerify", 2733>>, <<"OpCheckMultiSig", 2734>>,
    <<"OpCheckMultiSigVerify", 2735>>, <<"OpCheckLockTimeVerify", 2736>>,
    <<"OpCheckSequenceVerify", 2737>>, <<"OpUnknown178", 2738>>, <<"OpUnknown179", 2739>>,
    <<"OpUnknown180", 2740>>, <<"OpUnknown181", 2741>>, <<"OpUnknown182", 2742>>,
    <<"OpUnknown183", 2743>>, <<"OpUnknown184", 2744>>, <<"OpUnknown185", 2745>>,
    <<"OpUnknown186", 2746>>, <<"OpUnknown187", 2747>>, <<"OpUnknown188", 2748>>,
    <<"OpUnknown189", 2749>>, <<"OpUnknown190", 2750>>, <<"OpUnknown191", 2751>>,
    <<"OpUnknown192", 2752>>, <<"OpUnknown193", 2753>>, <<"OpUnknown194", 2754>>,
    <<"OpUnknown195", 2755>>, <<"OpUnknown196", 2756>>, <<"OpUnknown197", 2757>>,
    <<"OpUnknown198", 2758>>, <<"OpUnknown199", 2759>>, <<"OpUnknown200", 2760>>,
    <<"OpUnknown201", 2761>>, <<"OpUnknown202", 2762>>, <<"OpUnknown203", 2763>>,
    <<"OpUnknown204", 2764>>, <<"OpUnknown205", 2765>>, <<"OpUnknown206", 2766>>,
    <<"OpUnknown207", 2767>>, <<"OpUnknown208", 2768>>, <<"OpUnknown209", 2769>>,
    <<"OpUnknown210", 2770>>, <<"OpUnknown211", 2771>>, <<"OpUnknown212", 2772>>,
    <<"OpUnknown213", 2773>>, <<"OpUnknown214", 2774>>, <<"OpUnknown215", 2775>>,
    <<"OpUnknown216", 2776>>, <<"OpUnknown217", 2777>>, <<"OpUnknown218", 2778>>,
    <<"OpUnknown219", 2779>>, <<"OpUnknown220", 2780>>, <<"OpUnknown221", 2781>>,
    <<"OpUnknown222", 2782>>, <<"OpUnknown223", 2783>>, <<"OpUnknown224", 2784>>,
    <<"OpUnknown225", 2785>>, <<"OpUnknown226", 2786>>, <<"OpUnknown227", 2787>>,
    <<"OpUnknown228", 2788>>, <<"OpUnknown229", 2789>>, <<"OpUnknown230", 2790>>,
    <<"OpUnknown231", 2791>>, <<"OpUnknown232", 2792>>, <<"OpUnknown233", 2793>>,
    <<"OpUnknown234", 2794>>, <<"OpUnknown235", 2795>>, <<"OpUnknown236", 2796>>,
    <<"OpUnknown237", 2797>>, <<"OpUnknown238", 2798>>, <<"OpUnknown239", 2799>>,
    <<"OpUnknown240", 2800>>, <<"OpUnknown241", 2801>>, <<"OpUnknown242", 2802>>,
    <<"OpUnknown243", 2803>>, <<"OpUnknown244", 2804>>, <<"OpUnknown245", 2805>>,
    <<"OpUnknown246", 2806>>, <<"OpUnknown247", 2807>>, <<"OpUnknown248", 2808>>,
    <<"OpUnknown249", 2809>>, <<"OpSmallInteger", 2810>>, <<"OpPubKeys", 2811>>,
    <<"OpUnknown252", 2812>>, <<"OpPubKeyHash", 2813>>, <<"OpPubKey", 2814>>,
    <<"OpInvalidOpCode", 2815>>
>>

\* the byte an exported value stands for: its two low hexadecimal digits
ByteOf(value) == value % 256

-----------------------------------------------------------------------------
(* Claims about validate_body_in_isolation, checked under Spec *)

Txs == block.transactions

RootMatches ==
    block.header.hash_merkle_root =
        calc_hash_merkle_root_with_options(Txs, storage_mass_activated(block))

\* the order of the checks as the specification lists it
ClaimedOrder ==
    <<"check_has_transactions", "check_hash_merkle_root", "check_only_one_coinbase",
      "check_transactions_in_isolation", "check_block_mass",
      "check_duplicate_transactions", "check_block_double_spends",
      "check_no_chained_transactions">>

\* C1: the checks run in the order has_transactions, hash_merkle_root,
\* only_one_coinbase, per-transaction isolation, block mass, duplicate
\* transactions, double spends, chained transactions; an error returned is the
\* error of the last check run, every check before it passed on the block, and
\* success is returned only after all eight passed.
C1_ChecksInFixedOrder ==
    /\ Len(executed) <= Len(ClaimedOrder)
    /\ \A i \in 1..Len(executed) : executed[i] = ClaimedOrder[i]
    /\ \A i \in 1..(Len(executed) - 1) : RunCheck(ClaimedOrder[i], block).ok
    /\ Done /\ ~result.ok =>
          /\ executed # <<>>
          /\ SameResult(result, RunCheck(ClaimedOrder[Len(executed)], block))
    /\ Done /\ result.ok =>
          /\ executed = ClaimedOrder
          /\ RunCheck(ClaimedOrder[Len(ClaimedOrder)], block).ok

\* a block with a wrong merkle root, a misplaced coinbase and a double spend is
\* rejected for the merkle root
C1_Witness ==
    /\ Done
    /\ Txs # <<>>
    /\ ~RootMatches
    /\ ~check_only_one_coinbase(block).ok
    /\ ~check_block_double_spends(block).ok
    /\ result.err = "BadMerkleRoot"

\* C2 as stated: every block whose header root differs from the recomputed root
\* is rejected with BadMerkleRoot(header root, recomputed root).
C2_Original ==
    Done /\ ~RootMatches =>
        IsErr(result, "BadMerkleRoot",
              <<block.header.hash_merkle_root,
                calc_hash_merkle_root_with_options(Txs, storage_mass_activated(block))>>)

\* C2, amended: every block with at least one transaction whose header root
\* differs from the root recomputed with the storage-mass flag is rejected with
\* BadMerkleRoot(header root, recomputed root), whatever else is wrong with it.
C2_BadMerkleRoot ==
    Done /\ Txs # <<>> /\ ~RootMatches =>
        IsErr(result, "BadMerkleRoot",
              <<block.header.hash_merkle_root,
                calc_hash_merkle_root_with_options(Txs, storage_mass_activated(block))>>)

\* a block past the activation score whose header commits to the list hashed
\* without the mass commitments, and whose first transaction is no coinbase
C2_Witness ==
    /\ Done
    /\ storage_mass_activated(block)
    /\ Txs # <<>>
    /\ block.header.hash_merkle_root = calc_hash_merkle_root_with_options(Txs, FALSE)
    /\ ~RootMatches
    /\ ~is_coinbase(Txs[1])
    /\ result.err = "BadMerkleRoot"

\* C3: a block without transactions is rejected with NoTransactions, and neither
\* the merkle root check nor the coinbase check (which reads transactions[0])
\* is ever run on it.
C3_NoTransactions ==
    Txs = <<>> =>
        /\ \A i \in 1..Len(executed) : executed[i] = "check_has_transactions"
        /\ Done => IsErr(result, "NoTransactions", <<>>)

\* an empty block whose header root is not the root of the empty list
C3_Witness ==
    /\ Done
    /\ Txs = <<>>
    /\ ~RootMatches
    /\ result.err = "NoTransactions"

\* the first k checks pass on the block
PassesFirst(k) == \A i \in 1..k : RunCheck(ClaimedOrder[i], block).ok

\* C5: in a non-empty block with a matching merkle root, a first transaction that
\* is no coinbase gives FirstTxNotCoinbase; otherwise the first coinbase at a
\* block position >= 1 gives MultipleCoinbases(i), i its zero-based offset within
\* transactions[1..], that is block position i + 1.
C5_CoinbasePlacement ==
    Done /\ Txs # <<>> /\ RootMatches =>
        LET later == {i \in 2..Len(Txs) : is_coinbase(Txs[i])}
        IN  /\ ~is_coinbase(Txs[1]) => IsErr(result, "FirstTxNotCoinbase", <<>>)
            /\ is_coinbase(Txs[1]) /\ later # {} =>
                  IsErr(result, "MultipleCoinbases", <<Min(later) - 2>>)

\* the second coinbase is the third transaction of the block: offset 1
C5_Witness ==
    /\ Done
    /\ Len(Txs) = 3
    /\ is_coinbase(Txs[1]) /\ ~is_coinbase(Txs[2]) /\ is_coinbase(Txs[3])
    /\ IsErr(result, "MultipleCoinbases", <<1>>)

\* C6: when the first three checks pass and some transaction fails
\* validate_tx_in_isolation, the result is TxInIsolationValidationFailed(id, e)
\* with id the id of the first failing transaction in list order and e the error
\* validate_tx_in_isolation returns for it.
C6_FirstFailingTransaction ==
    Done /\ PassesFirst(3) =>
        LET failing == {i \in 1..Len(Txs) : ~validate_tx_in_isolation(Txs[i]).ok}
        IN  failing # {} =>
                IsErr(result, "TxInIsolationValidationFailed",
                      <<TxId(Txs[Min(failing)]), validate_tx_in_isolation(Txs[Min(failing)])>>)

\* two transactions fail, for different reasons; the first one is reported
C6_Witness ==
    /\ Done
    /\ Len(Txs) = 3
    /\ ~validate_tx_in_isolation(Txs[2]).ok
    /\ ~validate_tx_in_isolation(Txs[3]).ok
    /\ validate_tx_in_isolation(Txs[2]).err # validate_tx_in_isolation(Txs[3]).err
    /\ IsErr(result, "TxInIsolationValidationFailed",
             <<TxId(Txs[2]), validate_tx_in_isolation(Txs[2])>>)

\* the sum of f over the first n transactions of the block, as a number
RECURSIVE SumFirst(_, _)
SumFirst(f, n) == IF n = 0 THEN 0 ELSE f[n] + SumFirst(f, n - 1)

CommittedMasses == [i \in 1..Len(Txs) |-> Txs[i].mass]
ComputeMasses == [i \in 1..Len(Txs) |-> calc_tx_compute_mass(Txs[i])]

MassTooLowAt(i) == CommittedMasses[i] < ComputeMasses[i]
OverLimitAt(i) == SumFirst(CommittedMasses, i) > max_block_mass

\* C7: with storage mass activated (daa_score > activation score) the first
\* transaction in list order with a committed mass below its compute mass or a
\* running total of committed masses above max_block_mass decides the result:
\* MassFieldTooLow(id, committed, computed) if its mass field is too low,
\* ExceedsMassLimit(max_block_mass) otherwise.
C7_ActivatedMassOrder ==
    Done /\ PassesFirst(4) /\ block.header.daa_score > storage_mass_activation_daa_score =>
        LET bad == {i \in 1..Len(Txs) : MassTooLowAt(i) \/ OverLimitAt(i)}
            k == Min(bad)
        IN  bad # {} =>
                IF MassTooLowAt(k)
                THEN IsErr(result, "MassFieldTooLow",
                           <<TxId(Txs[k]), CommittedMasses[k], ComputeMasses[k]>>)
                ELSE IsErr(result, "ExceedsMassLimit", <<max_block_mass>>)

\* the second transaction takes the total over the limit, the third commits to
\* less than its compute mass: the limit is reported
C7_Witness ==
    /\ Done
    /\ PassesFirst(4)
    /\ storage_mass_activated(block)
    /\ Len(Txs) = 3
    /\ ~MassTooLowAt(1) /\ ~MassTooLowAt(2) /\ MassTooLowAt(3)
    /\ OverLimitAt(2)
    /\ IsErr(result, "ExceedsMassLimit", <<max_block_mass>>)

\* one transaction both commits to too little and takes the total over the limit
C7_SameTransaction ==
    /\ Done
    /\ PassesFirst(4)
    /\ storage_mass_activated(block)
    /\ \E i \in 1..Len(Txs) : MassTooLowAt(i) /\ OverLimitAt(i) /\ ~OverLimitAt(i - 1)
    /\ result.err = "MassFieldTooLow"

\* the block with every committed mass replaced by m
WithMasses(b, m) ==
    [b EXCEPT !.transactions = [i \in 1..Len(b.transactions) |->
                                   [b.transactions[i] EXCEPT !.mass = m]]]

\* C8: a successful validation returns the exact sum of the compute masses
\* (daa_score <= activation score) or of the committed masses (daa_score above
\* it), which is at most max_block_mass; below the activation the committed
\* masses do not influence the result.
C8_ReturnedMass ==
    Done /\ result.ok =>
        /\ result.args[1] =
              IF block.header.daa_score > storage_mass_activation_daa_score
              THEN SumFirst(CommittedMasses, Len(Txs))
              ELSE SumFirst(ComputeMasses, Len(Txs))
        /\ result.args[1] <= max_block_mass
        /\ block.header.daa_score <= storage_mass_activation_daa_score =>
              \A m \in {0, U64_MAX} :
                  SameResult(result, validate_body_in_isolation(WithMasses(block, m)))

\* a block below the activation whose committed masses sum to another value
\* than its compute masses
C8_Witness ==
    /\ Done
    /\ result.ok
    /\ ~storage_mass_activated(block)
    /\ SumFirst(CommittedMasses, Len(Txs)) # SumFirst(ComputeMasses, Len(Txs))
    /\ result.args[1] = SumFirst(ComputeMasses, Len(Txs))

\* C9: when the first five checks pass and two transactions at different
\* positions have the same id, the result is DuplicateTransactions(id) for the
\* first transaction in list order whose id occurred earlier, also when the
\* double-spend check would fail on the block.
C9_DuplicateTransactions ==
    Done /\ PassesFirst(5) =>
        LET dup == {j \in 1..Len(Txs) : \E i \in 1..(j - 1) : TxId(Txs[i]) = TxId(Txs[j])}
        IN  dup # {} => IsErr(result, "DuplicateTransactions", <<TxId(Txs[Min(dup)])>>)

\* two transactions with one id and different mass commitments, spending the
\* same outpoint
C9_Witness ==
    /\ Done
    /\ PassesFirst(5)
    /\ Len(Txs) = 3
    /\ TxId(Txs[2]) = TxId(Txs[3])
    /\ Txs[2] # Txs[3]
    /\ ~check_block_double_spends(block).ok
    /\ IsErr(result, "DuplicateTransactions", <<TxId(Txs[3])>>)

\* the previous outpoints of all inputs of the block, in scan order
Spent == [i \in 1..Len(FlatInputs(Txs)) |-> FlatInputs(Txs)[i].previous_outpoint]

\* C10: when the first six checks pass, DoubleSpendInSameBlock(o) is the result
\* exactly when two inputs of the block have the same transaction id and the same
\* index in their previous outpoints, and o is the outpoint of the first input in
\* scan order that repeats an earlier one; the same id with another index is no
\* double spend.
C10_DoubleSpend ==
    Done /\ PassesFirst(6) =>
        LET rep == {j \in 1..Len(Spent) :
                        \E i \in 1..(j - 1) :
                            /\ Spent[i].transaction_id = Spent[j].transaction_id
                            /\ Spent[i].index = Spent[j].index}
        IN  /\ rep # {} => IsErr(result, "DoubleSpendInSameBlock", <<Spent[Min(rep)]>>)
            /\ rep = {} => result.err # "DoubleSpendInSameBlock"

\* inputs spend a, b, b, a: the double spend reported is that of b
C10_Witness ==
    /\ Done
    /\ PassesFirst(6)
    /\ Len(Spent) = 4
    /\ Spent[1] = Spent[4] /\ Spent[2] = Spent[3] /\ Spent[1] # Spent[2]
    /\ IsErr(result, "DoubleSpendInSameBlock", <<Spent[2]>>)

\* two inputs spend different outputs of one transaction, and the block is valid
C10_SameIdOtherIndex ==
    /\ Done
    /\ result.ok
    /\ \E i, j \in 1..Len(Spent) :
          Spent[i].transaction_id = Spent[j].transaction_id /\ Spent[i].index # Spent[j].index

\* the positions in scan order of the inputs whose previous outpoint names, by
\* its transaction id, a transaction of the block
SpendsBlockTx ==
    {j \in 1..Len(Spent) : \E t \in 1..Len(Txs) : Spent[j].transaction_id = TxId(Txs[t])}

\* C11: when the first seven checks pass and some input's previous outpoint
\* carries the id of a transaction of the same block, with any index and
\* wherever that transaction stands, the result is ChainedTransaction(outpoint)
\* for the first such input in scan order; no such block is accepted.
C11_ChainedAnyIndex ==
    Done /\ PassesFirst(7) /\ SpendsBlockTx # {} =>
        IsErr(result, "ChainedTransaction", <<Spent[Min(SpendsBlockTx)]>>)

\* the same for the outpoints whose index is an output of the transaction named:
\* these are rejected, also when the transaction named stands after the spender
C11_ChainedExistingOutput ==
    Done /\ PassesFirst(7) =>
        LET chained ==
                {j \in SpendsBlockTx :
                    \E t \in 1..Len(Txs) :
                        /\ Spent[j].transaction_id = TxId(Txs[t])
                        /\ Spent[j].index < Len(Txs[t].outputs)}
        IN  chained # {} => IsErr(result, "ChainedTransaction", <<Spent[Min(chained)]>>)

\* the spender stands before the transaction whose output it spends
C11_SpenderFirst ==
    /\ Done
    /\ Len(Txs) = 3
    /\ Txs[2].inputs # <<>>
    /\ Txs[2].inputs[1].previous_outpoint = TransactionOutpoint(TxId(Txs[3]), 0)
    /\ result.err = "ChainedTransaction"

\* a block is accepted although an input names a transaction of the block, with
\* an index that transaction has no output for
C11_AcceptedOutOfRange ==
    /\ Done
    /\ result.ok
    /\ SpendsBlockTx # {}

-----------------------------------------------------------------------------
(* Claims about the block pipeline, checked under SpecPipeline *)

\* C4: a block rejected with BadMerkleRoot or MissingParents is not recorded as
\* known-invalid: every submission of a block with a missing parent yields
\* MissingParents, every submission of a block with known parents whose header
\* root differs from the recomputed root yields BadMerkleRoot, a block rejected
\* with one of the two before is rejected with the same error again, and its
\* status is not invalid afterwards.
C4_RetryYieldsSameError ==
    submitted # <<>> =>
        LET b == submitted[1]
            calculated ==
                calc_hash_merkle_root_with_options(b.transactions, storage_mass_activated(b))
        IN  /\ b.header.parents = ParentsMissing => IsErr(outcome, "MissingParents", <<>>)
            /\ b.header.parents = ParentsKnown /\ b.header.hash_merkle_root # calculated =>
                  IsErr(outcome, "BadMerkleRoot", <<b.header.hash_merkle_root, calculated>>)
            /\ \A e \in {"BadMerkleRoot", "MissingParents"} :
                  <<b, e>> \in history => outcome.err = e
            /\ outcome.err \in {"BadMerkleRoot", "MissingParents"} =>
                  statuses[b.header] # "invalid"

\* a block rejected for its merkle root is submitted again and rejected for its
\* merkle root again, while another block is known as invalid
C4_Witness ==
    /\ submitted # <<>>
    /\ <<submitted[1], "BadMerkleRoot">> \in history
    /\ outcome.err = "BadMerkleRoot"
    /\ ~check_only_one_coinbase(submitted[1]).ok
    /\ \E h \in PipelineHeaders : statuses[h] = "invalid"

\* the same for a missing parent
C4_MissingParentsAgain ==
    /\ submitted # <<>>
    /\ <<submitted[1], "MissingParents">> \in history
    /\ outcome.err = "MissingParents"

\* a block known as invalid is refused without validation
C4_KnownInvalid ==
    /\ submitted # <<>>
    /\ outcome.err = "KnownInvalid"

-----------------------------------------------------------------------------
(* Claims about validate_tx_in_isolation, checked under SpecTx *)

\* the order of the checks as the specification lists it
TxClaimedOrder ==
    <<"check_transaction_inputs_count", "check_transaction_signature_scripts",
      "check_transaction_outputs_count", "check_transaction_script_public_keys",
      "check_coinbase_in_isolation", "check_transaction_output_value_ranges",
      "check_duplicate_transaction_inputs", "check_gas", "check_transaction_payload",
      "check_transaction_version">>

\* the first k checks of that order pass on the transaction
TxPassesFirst(k) == \A i \in 1..k : RunTxCheck(TxClaimedOrder[i], validated_tx).ok

\* the checks of that order the transaction violates
TxViolated ==
    {i \in 1..Len(TxClaimedOrder) : ~RunTxCheck(TxClaimedOrder[i], validated_tx).ok}

\* C12: the checks run in the order inputs count, signature-script sizes,
\* outputs count, script-public-key sizes, coinbase shape, output value ranges,
\* duplicate inputs, gas, payload, version; the error returned is that of the
\* earliest violated check of this order, and success is returned only when no
\* check is violated. A coinbase with more than max_tx_inputs inputs yields
\* TooManyInputs; gas > 0 with a wrong version yields TxHasGas.
C12_TxChecksInFixedOrder ==
    /\ Len(tx_executed) <= Len(TxClaimedOrder)
    /\ \A i \in 1..Len(tx_executed) : tx_executed[i] = TxClaimedOrder[i]
    /\ TxDone =>
          /\ TxViolated # {} =>
                /\ Len(tx_executed) = Min(TxViolated)
                /\ SameResult(tx_result,
                              RunTxCheck(TxClaimedOrder[Min(TxViolated)], validated_tx))
          /\ TxViolated = {} => tx_executed = TxClaimedOrder /\ tx_result.ok
          /\ is_coinbase(validated_tx) /\ Len(validated_tx.inputs) > max_tx_inputs =>
                IsErr(tx_result, "TooManyInputs",
                      <<Len(validated_tx.inputs), max_tx_inputs>>)
          /\ TxPassesFirst(7) /\ validated_tx.gas > 0 /\ validated_tx.version # TX_VERSION =>
                IsErr(tx_result, "TxHasGas", <<>>)

\* a coinbase with too many inputs, gas and an unknown version is rejected for
\* the number of its inputs
C12_Witness ==
    /\ TxDone
    /\ is_coinbase(validated_tx)
    /\ Len(validated_tx.inputs) > max_tx_inputs
    /\ validated_tx.gas > 0
    /\ validated_tx.version # TX_VERSION
    /\ tx_result.err = "TooManyInputs"

\* gas and an unknown version on a transaction that is valid otherwise
C12_GasBeforeVersion ==
    /\ TxDone
    /\ TxViolated = {8, 10}
    /\ tx_result.err = "TxHasGas"

\* C13: a transaction that passes the input checks and has more than
\* max_tx_outputs outputs is rejected with TooManyOutputs(n, limit), n the number
\* of its outputs and limit max_tx_outputs.
C13_TooManyOutputsPair ==
    TxDone /\ TxPassesFirst(2) /\ Len(validated_tx.outputs) > max_tx_outputs =>
        IsErr(tx_result, "TooManyOutputs", <<Len(validated_tx.outputs), max_tx_outputs>>)

\* what is returned there: the error named TooManyOutputs, carrying the number
\* of inputs and max_tx_inputs
C13_TooManyOutputsReturned ==
    TxDone /\ TxPassesFirst(2) /\ Len(validated_tx.outputs) > max_tx_outputs =>
        IsErr(tx_result, "TooManyOutputs", <<Len(validated_tx.inputs), max_tx_inputs>>)

\* one input, one output too many
C13_OneInputTooManyOutputs ==
    /\ TxDone
    /\ Len(validated_tx.inputs) = 1
    /\ Len(validated_tx.outputs) = max_tx_outputs + 1
    /\ IsErr(tx_result, "TooManyOutputs", <<1, max_tx_inputs>>)

\* the data-model invariants of a transaction t
DataModelInvariants(t) ==
    /\ Len(t.inputs) <= max_tx_inputs
    /\ Len(t.outputs) <= max_tx_outputs
    /\ \A i \in 1..Len(t.inputs) :
          Len(t.inputs[i].signature_script) <= max_signature_script_len
    /\ \A i \in 1..Len(t.outputs) :
          Len(t.outputs[i].script_public_key.script) <= max_script_public_key_len
    /\ t.subnetwork_id = SUBNETWORK_ID_COINBASE =>
          /\ t.inputs = <<>>
          /\ Len(t.outputs) <= ghostdag_k + 2
          /\ \A i \in 1..Len(t.outputs) :
                Len(t.outputs[i].script_public_key.script)
                    <= coinbase_payload_script_public_key_max_len
    /\ t.subnetwork_id # SUBNETWORK_ID_COINBASE =>
          /\ Len(t.inputs) >= 1
          /\ t.payload = <<>>
    /\ \A i, j \in 1..Len(t.inputs) :
          i # j => t.inputs[i].previous_outpoint # t.inputs[j].previous_outpoint
    /\ \A i \in 1..Len(t.outputs) : 0 < t.outputs[i].value /\ t.outputs[i].value <= MAX_SOMPI
    /\ SumFirst([i \in 1..Len(t.outputs) |-> t.outputs[i].value], Len(t.outputs)) <= MAX_SOMPI
    /\ t.gas = 0
    /\ t.version = TX_VERSION

\* C14: validate_tx_in_isolation accepts a transaction exactly when it satisfies
\* every data-model invariant: counts and script sizes within their limits, the
\* coinbase shape, a non-coinbase with an input and no payload, distinct
\* previous outpoints, output values in 1..MAX_SOMPI with a sum of at most
\* MAX_SOMPI, no gas, the known version.
C14_AcceptedIffInvariants ==
    TxDone => (tx_result.ok <=> DataModelInvariants(validated_tx))

\* an accepted transaction with as many inputs and outputs as allowed, a
\* signature script and a script public key of the largest size
C14_Witness ==
    /\ TxDone
    /\ tx_result.ok
    /\ Len(validated_tx.inputs) = max_tx_inputs
    /\ Len(validated_tx.outputs) = max_tx_outputs
    /\ \E i \in 1..Len(validated_tx.inputs) :
          Len(validated_tx.inputs[i].signature_script) = max_signature_script_len
    /\ \E i \in 1..Len(validated_tx.outputs) :
          Len(validated_tx.outputs[i].script_public_key.script) = max_script_public_key_len

\* an accepted coinbase with ghostdag_k + 2 outputs and a payload
C14_AcceptedCoinbase ==
    /\ TxDone
    /\ tx_result.ok
    /\ is_coinbase(validated_tx)
    /\ Len(validated_tx.outputs) = ghostdag_k + 2
    /\ validated_tx.payload # <<>>

CoinbaseErrors ==
    {"CoinbaseHasInputs", "CoinbaseTooManyOutputs", "CoinbaseScriptPublicKeyTooLong"}

\* C15: the coinbase-shape check never rejects a non-coinbase transaction; a
\* coinbase that passed the count and size checks gets CoinbaseHasInputs(n) when
\* it has n >= 1 inputs, else CoinbaseTooManyOutputs(|outputs|, ghostdag_k + 2)
\* when it has more than ghostdag_k + 2 outputs, else
\* CoinbaseScriptPublicKeyTooLong(i) for the smallest output index i whose script
\* is longer than coinbase_payload_script_public_key_max_len, else no coinbase
\* error (exactly ghostdag_k + 2 outputs are allowed).
C15_CoinbaseShape ==
    LET t == validated_tx
        long == {i \in 1..Len(t.outputs) :
                    Len(t.outputs[i].script_public_key.script)
                        > coinbase_payload_script_public_key_max_len}
    IN  /\ t.subnetwork_id # SUBNETWORK_ID_COINBASE =>
              /\ check_coinbase_in_isolation(t).ok
              /\ TxDone => tx_result.err \notin CoinbaseErrors
        /\ TxDone /\ t.subnetwork_id = SUBNETWORK_ID_COINBASE /\ TxPassesFirst(4) =>
              IF Len(t.inputs) >= 1
              THEN IsErr(tx_result, "CoinbaseHasInputs", <<Len(t.inputs)>>)
              ELSE IF Len(t.outputs) > ghostdag_k + 2
              THEN IsErr(tx_result, "CoinbaseTooManyOutputs",
                         <<Len(t.outputs), ghostdag_k + 2>>)
              ELSE IF long # {}
              THEN IsErr(tx_result, "CoinbaseScriptPublicKeyTooLong", <<Min(long) - 1>>)
              ELSE tx_result.err \notin CoinbaseErrors

\* a coinbase with an input, more than ghostdag_k + 2 outputs and a long output
\* script is rejected for its input
C15_Witness ==
    /\ TxDone
    /\ is_coinbase(validated_tx)
    /\ Len(validated_tx.inputs) = 2
    /\ Len(validated_tx.outputs) > ghostdag_k + 2
    /\ \E i \in 1..Len(validated_tx.outputs) :
          Len(validated_tx.outputs[i].script_public_key.script)
              > coinbase_payload_script_public_key_max_len
    /\ IsErr(tx_result, "CoinbaseHasInputs", <<2>>)

\* the second output is the first with a long script
C15_SecondOutputTooLong ==
    /\ TxDone
    /\ Len(validated_tx.outputs) = ghostdag_k + 2
    /\ IsErr(tx_result, "CoinbaseScriptPublicKeyTooLong", <<1>>)

\* a coinbase without inputs and with short scripts, one output too many
C15_OneOutputTooMany ==
    /\ TxDone
    /\ IsErr(tx_result, "CoinbaseTooManyOutputs", <<ghostdag_k + 3, ghostdag_k + 2>>)

\* the values of the outputs of the transaction validated, and what the first n
\* of them add up to
Values == [i \in 1..Len(validated_tx.outputs) |-> validated_tx.outputs[i].value]
RunningSum(n) == SumFirst(Values, n)

\* the outputs at which one of the four conditions fails
ValueFailsAt ==
    {i \in 1..Len(Values) : Values[i] = 0 \/ Values[i] > MAX_SOMPI \/ RunningSum(i) > MAX_SOMPI}

\* what the claim says the output-value check returns
ClaimedValueResult ==
    IF ValueFailsAt = {} THEN OkUnit
    ELSE LET i == Min(ValueFailsAt)
         IN  IF Values[i] = 0 THEN Err("TxOutZero", <<i - 1>>)
             ELSE IF Values[i] > MAX_SOMPI THEN Err("TxOutTooHigh", <<i - 1>>)
             ELSE IF RunningSum(i) > U64_MAX THEN Err("OutputsValueOverflow", <<>>)
             ELSE Err("TotalTxOutTooHigh", <<>>)

\* C16: the output-value check walks the outputs left to right with a running
\* sum; the first output i at which a condition fails decides the error, in the
\* priority value = 0: TxOutZero(i), value > MAX_SOMPI: TxOutTooHigh(i), overflow
\* of the running sum: OutputsValueOverflow, running sum > MAX_SOMPI:
\* TotalTxOutTooHigh; a running sum above MAX_SOMPI at output i is reported as
\* TotalTxOutTooHigh also when a later output is zero or above MAX_SOMPI.
C16_OutputValuePriority ==
    /\ SameResult(check_transaction_output_value_ranges(validated_tx), ClaimedValueResult)
    /\ TxDone /\ TxPassesFirst(5) /\ ValueFailsAt # {} =>
          SameResult(tx_result, ClaimedValueResult)
    /\ TxDone /\ TxPassesFirst(5) =>
          \A i \in 1..Len(Values) :
              /\ RunningSum(i) > MAX_SOMPI
              /\ \A j \in 1..i : Values[j] # 0 /\ Values[j] <= MAX_SOMPI
              => IsErr(tx_result, "TotalTxOutTooHigh", <<>>)

\* the sum exceeds MAX_SOMPI at the second output, the third output is zero
C16_Witness ==
    /\ TxDone
    /\ Len(Values) = 3
    /\ Values[1] + Values[2] > MAX_SOMPI
    /\ Values[1] <= MAX_SOMPI /\ Values[2] <= MAX_SOMPI
    /\ Values[3] = 0
    /\ IsErr(tx_result, "TotalTxOutTooHigh", <<>>)

\* the same with a third output above MAX_SOMPI
C16_LaterTooHigh ==
    /\ TxDone
    /\ Len(Values) = 3
    /\ Values[3] > MAX_SOMPI
    /\ IsErr(tx_result, "TotalTxOutTooHigh", <<>>)

\* an output above MAX_SOMPI after outputs that are within it
C16_TooHighAtSecond ==
    /\ TxDone
    /\ Len(Values) >= 2
    /\ Values[1] = MAX_SOMPI
    /\ IsErr(tx_result, "TxOutTooHigh", <<1>>)

\* transaction t with its inputs in the order perm, a permutation of their
\* positions
WithInputsPermuted(t, perm) ==
    [t EXCEPT !.inputs = [i \in 1..Len(t.inputs) |-> t.inputs[perm[i]]]]

\* two inputs at different positions have the same previous outpoint
HasRepeatedOutpoint(t) ==
    \E i, j \in 1..Len(t.inputs) :
        i # j /\ t.inputs[i].previous_outpoint = t.inputs[j].previous_outpoint

\* C17: the transaction with its inputs in any other order is accepted if and
\* only if the transaction is accepted; a transaction that passes the first six
\* checks and has two inputs with the same previous outpoint, at any two
\* positions, is rejected with TxDuplicateInputs.
C17_InputOrderInsensitive ==
    TxDone =>
        /\ \A perm \in Permutations(1..Len(validated_tx.inputs)) :
              validate_tx_in_isolation(WithInputsPermuted(validated_tx, perm)).ok
                  = tx_result.ok
        /\ TxPassesFirst(6) /\ HasRepeatedOutpoint(validated_tx) =>
              IsErr(tx_result, "TxDuplicateInputs", <<>>)

\* the first and the third input spend one outpoint, the second another
C17_Witness ==
    /\ TxDone
    /\ Len(validated_tx.inputs) = 3
    /\ validated_tx.inputs[1].previous_outpoint = validated_tx.inputs[3].previous_outpoint
    /\ validated_tx.inputs[1].previous_outpoint # validated_tx.inputs[2].previous_outpoint
    /\ IsErr(tx_result, "TxDuplicateInputs", <<>>)

\* an accepted transaction whose inputs differ, so that another order is another
\* transaction
C17_AcceptedReordered ==
    /\ TxDone
    /\ tx_result.ok
    /\ Len(validated_tx.inputs) = 3
    /\ validated_tx.inputs[1] # validated_tx.inputs[2]

\* the inputs whose signature script, the outputs whose script public key is
\* strictly longer than its limit
BigSignatureScripts ==
    {i \in 1..Len(validated_tx.inputs) :
        Len(validated_tx.inputs[i].signature_script) > max_signature_script_len}
BigScriptPublicKeys ==
    {i \in 1..Len(validated_tx.outputs) :
        Len(validated_tx.outputs[i].script_public_key.script) > max_script_public_key_len}

\* C18: a transaction that passes the inputs count gets
\* TooBigSignatureScript(i, max_signature_script_len) for its first input i whose
\* signature script is strictly longer than the limit; one that passes the
\* first three checks gets TooBigScriptPublicKey(i, max_script_public_key_len)
\* for its first output i whose script is strictly longer than the limit; a
\* script of exactly the limit is never the reason of either error.
C18_FirstOversizedScript ==
    TxDone =>
        /\ TxPassesFirst(1) /\ BigSignatureScripts # {} =>
              IsErr(tx_result, "TooBigSignatureScript",
                    <<Min(BigSignatureScripts) - 1, max_signature_script_len>>)
        /\ TxPassesFirst(3) /\ BigScriptPublicKeys # {} =>
              IsErr(tx_result, "TooBigScriptPublicKey",
                    <<Min(BigScriptPublicKeys) - 1, max_script_public_key_len>>)
        /\ BigSignatureScripts = {} => tx_result.err # "TooBigSignatureScript"
        /\ BigScriptPublicKeys = {} => tx_result.err # "TooBigScriptPublicKey"

\* the first signature script is of exactly the limit, the second and the third
\* are longer: the second is reported
C18_Witness ==
    /\ TxDone
    /\ Len(validated_tx.inputs) = 3
    /\ Len(validated_tx.inputs[1].signature_script) = max_signature_script_len
    /\ BigSignatureScripts = {2, 3}
    /\ IsErr(tx_result, "TooBigSignatureScript", <<1, max_signature_script_len>>)

\* the same for the script public keys
C18_SecondOutputTooBig ==
    /\ TxDone
    /\ Len(validated_tx.outputs) = 3
    /\ Len(validated_tx.outputs[1].script_public_key.script) = max_script_public_key_len
    /\ BigScriptPublicKeys = {2, 3}
    /\ IsErr(tx_result, "TooBigScriptPublicKey", <<1, max_script_public_key_len>>)

-----------------------------------------------------------------------------
(* Claims about the ScriptBuilder, checked under SpecScript *)

Mutators == {"add_op", "add_ops", "add_data", "add_i64", "add_lock_time", "add_sequence"}

\* C19: a call of add_op, add_ops, add_data, add_i64, add_lock_time or
\* add_sequence that returns an error leaves the buffer, and with it the bytes
\* script() returns, exactly as they were before the call, and the handles stay
\* what they were: the builder can be called again.
C19_FailedMutatorIsAtomic ==
    /\ [](handles >= 1)
    /\ [][(calls'[Len(calls')].op \in Mutators /\ ~returned'.ok) =>
              /\ script_builder' = script_builder
              /\ SameResult(script(script_builder').ret, script(script_builder).ret)
              /\ handles' = handles]_vars

\* a mutator succeeds, the next fails on the buffer the first left, the third
\* succeeds
C19_Witness ==
    /\ Len(calls) = 3
    /\ \A i \in 1..3 : calls[i].op \in Mutators
    /\ calls[1].ok /\ ~calls[2].ok /\ calls[3].ok
    /\ returned.ok
    /\ Len(script_builder) > 2

\* the errors met: a script that would be too long, with bytes in the buffer,
\* and an element that is too large
C19_ScriptTooLong ==
    /\ script_builder # <<>>
    /\ calls[Len(calls)].op = "add_ops"
    /\ returned.err = "ScriptTooLong"

C19_ElementTooLarge ==
    /\ script_builder # <<>>
    /\ calls[Len(calls)].op = "add_data"
    /\ returned.err = "ElementTooLarge"

\* every byte is an opcode of the table: no call is refused for an opcode
C19_NoOpcodeRejected == returned.err # "OpcodeRejected"

\* the payload of the data push a call writes, when it writes one
PushedBy(call) ==
    IF call.op = "add_data" THEN call.arg.bytes
    ELSE IF call.op \in {"add_i64", "add_lock_time", "add_sequence"}
    THEN minimal_signed_magnitude(call.arg.number)
    ELSE <<>>

\* C20: after any sequence of new, add_op, add_ops, add_data, add_i64,
\* add_lock_time, add_sequence, script and drain, successful or not, the buffer
\* is at most MAX_SCRIPTS_SIZE bytes long, and no data push written into it has
\* a payload of more than MAX_SCRIPT_ELEMENT_SIZE bytes.
C20_BufferWithinLimits ==
    /\ Len(script_builder) <= MAX_SCRIPTS_SIZE
    /\ \A i \in 1..Len(calls) :
          calls[i].ok => Len(PushedBy(calls[i])) <= MAX_SCRIPT_ELEMENT_SIZE

\* a buffer of exactly MAX_SCRIPTS_SIZE bytes after a call was refused for the
\* size of the script and another for the size of its element
C20_Witness ==
    /\ Len(script_builder) = MAX_SCRIPTS_SIZE
    /\ Len(calls) = 3
    /\ ~calls[2].ok
    /\ returned.ok

\* a push of exactly MAX_SCRIPT_ELEMENT_SIZE bytes is written
C20_LargestPush ==
    /\ calls # <<>>
    /\ calls[Len(calls)].op = "add_data"
    /\ Len(calls[Len(calls)].arg.bytes) = MAX_SCRIPT_ELEMENT_SIZE
    /\ returned.ok

\* the call that made the last step, and the bytes that step appended
LastCall == calls[Len(calls)]

\* the push the claim describes for d, its opcodes as the byte values it names
ClaimedPush(d) ==
    IF d = <<>> \/ d = <<0>> THEN <<0>>
    ELSE IF Len(d) = 1 /\ d[1] >= 1 /\ d[1] <= 16 THEN <<81 + (d[1] - 1)>>
    ELSE IF d = <<129>> THEN <<79>>
    ELSE IF Len(d) < 76 THEN <<Len(d)>> \o d
    ELSE IF Len(d) <= 255 THEN <<76, Len(d)>> \o d
    ELSE IF Len(d) <= 65535 THEN <<77, Len(d) % 256, Len(d) \div 256>> \o d
    ELSE <<78, Len(d) % 256, (Len(d) \div 256) % 256,
           (Len(d) \div 65536) % 256, Len(d) \div 16777216>> \o d

\* C21: a call of add_data(d) that succeeds appends to the buffer exactly the
\* canonical push of d: Op0 for an empty d and for [0], the small-integer opcode
\* for a byte from 1 to 16, Op1Negate for [0x81], else the opcode |d| and d
\* below 76 bytes, OpPushData1 with one length byte up to 255 bytes, OpPushData2
\* with a little-endian length of two bytes up to 65535 bytes; a push of 75
\* bytes starts with 0x4b, one of 76 bytes with 0x4c 0x4c, one of 256 bytes with
\* 0x4d 0x00 0x01.
C21_AddDataCanonical ==
    [][(LastCall'.op = "add_data" /\ returned'.ok) =>
          LET d == LastCall'.arg.bytes
              n == Len(script_builder)
              appended == SubSeq(script_builder', n + 1, Len(script_builder'))
          IN  /\ SubSeq(script_builder', 1, n) = script_builder
              /\ appended = ClaimedPush(d)
              /\ Len(d) = 75 => appended[1] = 75
              /\ Len(d) = 76 => SubSeq(appended, 1, 2) = <<76, 76>>
              /\ Len(d) = 256 => SubSeq(appended, 1, 3) = <<77, 0, 1>>]_vars

\* a push of 76 bytes, then one of 256 bytes, then one of 75 bytes, all written
C21_Witness ==
    /\ Len(calls) = 3
    /\ \A i \in 1..3 : calls[i].op = "add_data" /\ calls[i].ok
    /\ Len(calls[1].arg.bytes) = 76
    /\ Len(calls[2].arg.bytes) = 256
    /\ Len(calls[3].arg.bytes) = 75
    /\ Len(script_builder) = 78 + 259 + 76
    /\ script_builder[79] = 77

\* the pushes of one opcode: of [0], of [16] and of [0x81]
C21_SmallIntegers ==
    /\ Len(calls) = 3
    /\ \A i \in 1..3 : calls[i].op = "add_data"
    /\ calls[1].arg.bytes = <<0>> /\ calls[2].arg.bytes = <<16>> /\ calls[3].arg.bytes = <<129>>
    /\ script_builder = <<0, 96, 79>>

\* a faithful push-extractor: the payload of the push a script starts with
ExtractPush(b) ==
    IF b[1] = 0 THEN <<>>
    ELSE IF b[1] >= 81 /\ b[1] <= 96 THEN <<b[1] - 80>>
    ELSE IF b[1] = 79 THEN <<129>>
    ELSE IF b[1] < 76 THEN SubSeq(b, 2, 1 + b[1])
    ELSE IF b[1] = 76 THEN SubSeq(b, 3, 2 + b[2])
    ELSE IF b[1] = 77 THEN SubSeq(b, 4, 3 + b[2] + 256 * b[3])
    ELSE IF b[1] = 78
    THEN SubSeq(b, 6, 5 + b[2] + 256 * b[3] + 65536 * b[4] + 16777216 * b[5])
    ELSE <<>>

\* add_data(d) has just succeeded on an empty builder
EncodedAlone == LastCall'.op = "add_data" /\ returned'.ok /\ script_builder = <<>>

\* C22: for every d of at most MAX_SCRIPT_ELEMENT_SIZE bytes, a faithful
\* push-extractor applied to the bytes add_data(d) appended to an empty builder
\* gives d back, and no other byte sequence is encoded as the same script.
C22_RoundTrip ==
    [][EncodedAlone =>
          /\ ExtractPush(script_builder') = LastCall'.arg.bytes
          /\ \A other \in DataInputs :
                (other.binary /\ other.bytes # LastCall'.arg.bytes)
                    => add_data(<<>>, other).script # script_builder']_vars

\* the same for every d but the single zero byte, which is encoded as the
\* empty sequence is
C22_RoundTripButZeroByte ==
    [][(EncodedAlone /\ LastCall'.arg.bytes # <<0>>) =>
          /\ ExtractPush(script_builder') = LastCall'.arg.bytes
          /\ \A other \in DataInputs :
                (other.binary /\ other.bytes \notin {LastCall'.arg.bytes, <<0>>})
                    => add_data(<<>>, other).script # script_builder']_vars

\* add_data([0]) on an empty builder leaves the script add_data([]) leaves
C22_ZeroByteAsEmpty ==
    /\ Len(calls) = 1
    /\ LastCall.op = "add_data" /\ LastCall.arg.bytes = <<0>> /\ returned.ok
    /\ script_builder = add_data(<<>>, Bytes(0)).script
    /\ ExtractPush(script_builder) = <<>>

\* pushes of every form encoded on an empty builder and recovered: here the
\* one of 256 bytes
C22_Witness ==
    /\ Len(calls) = 1
    /\ LastCall.op = "add_data" /\ Len(LastCall.arg.bytes) = 256 /\ returned.ok
    /\ ExtractPush(script_builder) = LastCall.arg.bytes

Observers == {"script", "data"}

\* the buffer the last call would have left had it been made on an empty builder
OnEmptyBuilder(call) ==
    IF call.op = "add_op" THEN add_op(<<>>, call.arg.number).script
    ELSE IF call.op = "add_ops" THEN add_ops(<<>>, call.arg).script
    ELSE IF call.op = "add_data" THEN add_data(<<>>, call.arg).script
    ELSE IF call.op = "add_i64" THEN add_i64(<<>>, call.arg.number).script
    ELSE IF call.op = "add_lock_time" THEN add_lock_time(<<>>, call.arg.number).script
    ELSE add_sequence(<<>>, call.arg.number).script

\* C23: script() and the data getter return the bytes of the buffer and leave
\* it as it was, so two in a row return the same bytes; drain() returns the
\* bytes script() would have returned and leaves the buffer empty, so a drain()
\* right after a drain() returns no bytes, and an add_* call after a drain
\* writes to a buffer of length 0.
C23_ObserveAndDrain ==
    [][/\ LastCall'.op \in Observers =>
            /\ script_builder' = script_builder
            /\ SameResult(returned', Ok(HexString(script_builder)))
            /\ (calls # <<>> /\ LastCall.op \in Observers) => SameResult(returned', returned)
       /\ LastCall'.op = "drain" =>
            /\ SameResult(returned', script(script_builder).ret)
            /\ script_builder' = <<>>
            /\ (calls # <<>> /\ LastCall.op = "drain") => SameResult(returned', Ok(<<>>))
       /\ (calls # <<>> /\ LastCall.op = "drain" /\ LastCall'.op \in Mutators) =>
            /\ script_builder' = OnEmptyBuilder(LastCall')
            /\ returned'.ok => handles' = handles + 1]_vars

\* a buffer with bytes drained twice: the second drain returns none
C23_Witness ==
    /\ Len(calls) = 3
    /\ calls[1].op = "add_data" /\ calls[1].ok /\ Len(calls[1].arg.bytes) = 2
    /\ calls[2].op = "drain" /\ calls[3].op = "drain"
    /\ SameResult(returned, Ok(<<>>))
    /\ script_builder = <<>>

\* the first drain returned the bytes written
C23_DrainReturnsBytes ==
    /\ Len(calls) = 2
    /\ calls[1].op = "add_ops" /\ calls[1].ok /\ Len(calls[1].arg.bytes) = 2
    /\ calls[2].op = "drain"
    /\ SameResult(returned, Ok(HexString(calls[1].arg.bytes)))
    /\ Len(returned.args[1]) = 4

\* script() twice on a buffer with bytes
C23_ScriptTwice ==
    /\ Len(calls) = 3
    /\ calls[1].op = "add_op" /\ calls[2].op = "script" /\ calls[3].op = "data"
    /\ Len(script_builder) = 1
    /\ Len(returned.args[1]) = 2

\* a push written after a drain starts the buffer anew
C23_AddAfterDrain ==
    /\ Len(calls) = 3
    /\ calls[1].op = "add_op"
    /\ calls[2].op = "drain"
    /\ calls[3].op = "add_data" /\ calls[3].ok
    /\ script_builder = ClaimedPush(calls[3].arg.bytes)
    /\ Len(script_builder) = 3

-----------------------------------------------------------------------------
(* Claims about the exported opcode table, checked under SpecScript *)

Exported == 1..Len(TS_SCRIPT_OPCODES)
NameAt(i) == TS_SCRIPT_OPCODES[i][1]
ByteAt(i) == ByteOf(TS_SCRIPT_OPCODES[i][2])

\* name is exported with the byte value
HasValue(name, value) == \E i \in Exported : NameAt(i) = name /\ ByteAt(i) = value

\* the values the claim lists
StableValues ==
    /\ HasValue("OpData1", 1) /\ HasValue("OpPushData1", 76) /\ HasValue("Op1Negate", 79)
    /\ HasValue("Op1", 81) /\ HasValue("Op16", 96) /\ HasValue("OpReturn", 106)
    /\ HasValue("OpDup", 118) /\ HasValue("OpEqualVerify", 136) /\ HasValue("OpSha256", 168)
    /\ HasValue("OpBlake2b", 170) /\ HasValue("OpCheckSigECDSA", 171)
    /\ HasValue("OpCheckSig", 172) /\ HasValue("OpCheckLockTimeVerify", 176)
    /\ HasValue("OpCheckSequenceVerify", 177) /\ HasValue("OpInvalidOpCode", 255)

\* one value for a name and one name for a value
OneToOne ==
    \A i, j \in Exported : (NameAt(i) = NameAt(j) \/ ByteAt(i) = ByteAt(j)) => i = j

\* C24: the exported opcode table is a bijection between names and byte
\* values: every exported value is a byte, no two names share a value, every
\* byte value from 0x00 to 0xFF, those the builder writes among them, has a
\* name, and the values are the stable ones the claim lists.
C24_OpcodeTableBijection ==
    /\ \A i \in Exported : ByteAt(i) \in Opcodes
    /\ OneToOne
    /\ \A b \in Opcodes \cup {script_builder[i] : i \in DOMAIN script_builder} :
          \E i \in Exported : ByteAt(i) = b
    /\ StableValues

\* what holds of the table: a one-to-one naming, with the stable values, of
\* every byte but Op0, which the builder writes and the table does not name
C24_AllButOp0 ==
    /\ \A i \in Exported : ByteAt(i) \in Opcodes
    /\ OneToOne
    /\ \A b \in Opcodes \ {Op0} : \E i \in Exported : ByteAt(i) = b
    /\ \A i \in Exported : ByteAt(i) # Op0
    /\ StableValues

\* as written, the exported values are no bytes
C24_ValuesAsWritten == \A i \in Exported : TS_SCRIPT_OPCODES[i][2] = 2560 + ByteAt(i)

\* the builder has written the opcode that has no name
C24_Op0Written ==
    /\ calls # <<>>
    /\ LastCall.op = "add_i64" /\ returned.ok
    /\ script_builder = <<Op0>>
    /\ \A i \in Exported : ByteAt(i) # script_builder[1]

-----------------------------------------------------------------------------
(* Further claims about validate_body_in_isolation, checked under Spec *)

\* the masses check_block_mass accumulates for the block
AccumulatedMasses == IF storage_mass_activated(block) THEN CommittedMasses ELSE ComputeMasses

\* the positions at which the sum of the accumulated masses, as a number, is
\* above the limit
OverLimit == {i \in 1..Len(Txs) : SumFirst(AccumulatedMasses, i) > max_block_mass}

\* C25: when the first four checks pass and the sum of the masses accumulated,
\* taken as an unbounded number, exceeds max_block_mass (no mass field being
\* found too low before it does), the result is
\* ExceedsMassLimit(max_block_mass), also when the sum exceeds the largest
\* 64-bit value: the running total saturates and never wraps to a small value.
C25_MassNeverWraps ==
    Done /\ PassesFirst(4) /\ OverLimit # {} =>
        \/ IsErr(result, "ExceedsMassLimit", <<max_block_mass>>)
        \/ /\ storage_mass_activated(block)
           /\ \E j \in 1..Min(OverLimit) : MassTooLowAt(j)
           /\ result.err = "MassFieldTooLow"

\* the sum of the masses is above the largest value of the width, the total
\* before the last addition within the limit
C25_Witness ==
    /\ Done
    /\ PassesFirst(4)
    /\ Len(Txs) = 3
    /\ SumFirst(AccumulatedMasses, 2) <= max_block_mass
    /\ SumFirst(AccumulatedMasses, 3) > U64_MAX
    /\ WrappingAdd(SumFirst(AccumulatedMasses, 2), AccumulatedMasses[3]) <= max_block_mass
    /\ IsErr(result, "ExceedsMassLimit", <<max_block_mass>>)

\* the same in each branch
C25_CommittedOverflow == C25_Witness /\ storage_mass_activated(block)
C25_ComputeOverflow == C25_Witness /\ ~storage_mass_activated(block)

\* C26: a block for which validate_body_in_isolation returns success has at
\* least one transaction, a header merkle root equal to the recomputed one, a
\* coinbase first and no coinbase after it, only transactions that
\* validate_tx_in_isolation accepts, pairwise distinct transaction ids,
\* pairwise distinct input outpoints over the whole block, and no input that
\* spends an existing output (id, k), k < |outputs|, of a transaction of the
\* block.
C26_AcceptedBlockInvariants ==
    Done /\ result.ok =>
        /\ Len(Txs) >= 1
        /\ block.header.hash_merkle_root =
              calc_hash_merkle_root_with_options(Txs, storage_mass_activated(block))
        /\ is_coinbase(Txs[1])
        /\ \A i \in 2..Len(Txs) : ~is_coinbase(Txs[i])
        /\ \A i \in 1..Len(Txs) : validate_tx_in_isolation(Txs[i]).ok
        /\ \A i, j \in 1..Len(Txs) : TxId(Txs[i]) = TxId(Txs[j]) => i = j
        /\ \A i, j \in 1..Len(Spent) : Spent[i] = Spent[j] => i = j
        /\ \A j \in 1..Len(Spent) : \A t \in 1..Len(Txs) :
              ~(/\ Spent[j].transaction_id = TxId(Txs[t])
                /\ Spent[j].index < Len(Txs[t].outputs))

\* an accepted block of a coinbase and two transactions with an input each
C26_Witness ==
    /\ Done
    /\ result.ok
    /\ Len(Txs) = 3
    /\ Len(Spent) = 2
    /\ executed = CheckOrder

\* the transactions of the block with an input that spends outpoint o
Spenders(o) ==
    {t \in 1..Len(Txs) : \E i \in 1..Len(Txs[t].inputs) : Txs[t].inputs[i].previous_outpoint = o}

\* the transactions that validate_tx_in_isolation rejects
FailInIsolation == {t \in 1..Len(Txs) : ~validate_tx_in_isolation(Txs[t]).ok}

\* C29: DoubleSpendInSameBlock(o) is only returned when two transactions of
\* the block with different ids each have an input that spends o: a block with
\* an outpoint repeated inside one transaction is rejected before the
\* double-spend check, with TxInIsolationValidationFailed(id, TxDuplicateInputs)
\* when that transaction is the first one rejected on its own and the
\* duplicate its first defect, and a block with one transaction twice is rejected
\* before it with DuplicateTransactions.
C29_DoubleSpendNeedsTwoTransactions ==
    Done =>
        /\ result.err = "DoubleSpendInSameBlock" =>
              \E t, u \in Spenders(result.args[1]) : TxId(Txs[t]) # TxId(Txs[u])
        /\ (\E t \in 1..Len(Txs) : HasRepeatedOutpoint(Txs[t])) =>
              /\ result.err \in {"BadMerkleRoot", "FirstTxNotCoinbase", "MultipleCoinbases",
                                  "TxInIsolationValidationFailed"}
              /\ (/\ PassesFirst(3)
                  /\ validate_tx_in_isolation(Txs[Min(FailInIsolation)]).err = "TxDuplicateInputs")
                   => IsErr(result, "TxInIsolationValidationFailed",
                            <<TxId(Txs[Min(FailInIsolation)]), Err("TxDuplicateInputs", <<>>)>>)
        /\ (PassesFirst(5) /\ \E t, u \in 1..Len(Txs) : t # u /\ TxId(Txs[t]) = TxId(Txs[u]))
              => result.err = "DuplicateTransactions"

\* a double spend by two transactions with different ids
C29_Witness ==
    /\ Done
    /\ result.err = "DoubleSpendInSameBlock"
    /\ Len(Txs) = 3
    /\ Spenders(result.args[1]) = {2, 3}
    /\ TxId(Txs[2]) # TxId(Txs[3])
    /\ executed = SubSeq(CheckOrder, 1, 7)

\* one transaction twice: its outpoint is spent twice, the duplicate is reported
C29_SameTransactionTwice ==
    /\ Done
    /\ Len(Txs) = 3
    /\ Txs[2] = Txs[3]
    /\ Txs[2].inputs # <<>>
    /\ result.err = "DuplicateTransactions"

\* an outpoint twice in one transaction of an otherwise valid block
C29_RepeatedInsideOne ==
    /\ Done
    /\ Len(Txs) = 2
    /\ HasRepeatedOutpoint(Txs[2])
    /\ IsErr(result, "TxInIsolationValidationFailed",
             <<TxId(Txs[2]), Err("TxDuplicateInputs", <<>>)>>)

-----------------------------------------------------------------------------
(* Further claims about validate_tx_in_isolation, checked under SpecTx *)

ValueRangeResults == {"", "TxOutZero", "TxOutTooHigh", "TotalTxOutTooHigh"}

-----------------------------------------------------------------------------
(* Claims about the handles of a ScriptBuilder, checked under SpecHandles *)

\* the buffer a handle sees, and the handles that come from the same new()
Seen(h) == cells[owners[h].cell]
SameBuilder(h, g) == owners[h].origin = owners[g].origin

\* C28: the handles that come from one new() (the original, its clones and the
\* builders successful add_* calls returned) share one buffer: after any
\* sequence of calls through any of them script() returns the same bytes on
\* all, a drain() through one empties the buffer all of them see, and no cell
\* is borrowed when a call asks for a borrow, so no call panics.
C28_HandlesShareOneBuffer ==
    /\ \A h, g \in DOMAIN owners :
          SameBuilder(h, g) => SameResult(script(Seen(h)).ret, script(Seen(g)).ret)
    /\ (in_call.stage = "applied" /\ in_call.op = "drain") =>
          \A g \in DOMAIN owners : SameBuilder(in_call.handle, g) => Seen(g) = <<>>
    /\ in_call.stage # "panicked"
    /\ in_call.stage = "idle" => \A c \in DOMAIN cells : borrow_flag[c] = 0
    /\ in_call.stage # "idle" =>
          \A c \in DOMAIN cells :
              borrow_flag[c] = IF c # owners[in_call.handle].cell THEN 0
                               ELSE IF BorrowsShared(in_call.op) THEN 1 ELSE -1

\* the original, a clone of it and a builder returned by an add_* call, after
\* a write through the clone and another through the builder returned
C28_Witness ==
    /\ Len(owners) = 3
    /\ owners[1].by = "new" /\ owners[2].by = "clone" /\ owners[3].by = "add"
    /\ SameBuilder(1, 2) /\ SameBuilder(1, 3)
    /\ in_call.stage = "applied" /\ in_call.handle = 3 /\ in_call.done = 1
    /\ Len(Seen(1)) > 3

\* a drain through a clone of a builder with bytes
C28_DrainThroughClone ==
    /\ Len(owners) >= 2
    /\ owners[2].by = "clone"
    /\ in_call.stage = "applied" /\ in_call.op = "drain" /\ in_call.handle = 2
    /\ in_call.done >= 1
    /\ Seen(1) = <<>>

\* two builders from two calls of new() with different buffers
C28_TwoBuilders ==
    /\ Len(owners) >= 2
    /\ ~SameBuilder(1, 2)
    /\ Seen(1) # Seen(2)

====
